---- MODULE Spec2Model ----
(***************************************************************************)
(* Fleet yield and rental ROI analytics (staratlas-scan-analyzer).         *)
(*                                                                         *)
(* The four report scripts are modelled side by side:                      *)
(*   "rc1"   src/anal_rc1.js            (CLI, base names, wide + mobile)   *)
(*   "local" src/app_local_pushover.js  (CLI, wide + mobile)               *)
(*   "eff"   src/efficiency.js          (CLI, second script, wide only)    *)
(*   "chat"  src/app.js                 (slash command)                    *)
(*                                                                         *)
(* Strings that the code inspects character by character (fleet names,     *)
(* configuration keys) are sequences of one-character strings.  Amounts    *)
(* are exact integers in fixed units (see the section on units); binary    *)
(* floating point rounding of the JavaScript numbers is not modelled.      *)
(***************************************************************************)
EXTENDS Integers, Sequences, FiniteSets, TLC

VARIABLES
    variant,          \* which script runs
    rentalPrices,     \* the module-level rental table built at start-up
    query,            \* lookup: the fleet name handed to getRentalCost
    rent,             \* lookup: what getRentalCost returned
    now,              \* new Date() of the run, in milliseconds
    argv,             \* the window-size argument as the caller gave it
    hours,            \* the window size of the run
    basesMapping,     \* anal_rc1.js: coordinate -> base name
    src,              \* the record source: the rows the stream will emit
    pos,              \* how many rows the stream has emitted
    fleetData,        \* CLI scripts: ordered fleet -> {SDUs, SDUs24h, baseName}
    fleetDataDynamic, \* app.js: ordered fleet -> count in the window
    fleetData24h,     \* app.js: ordered fleet -> count in the last 24h
    market,           \* what gmClientService.getAllOpenOrders will answer
    quote,            \* what getLowestSDUPrice returned
    usePushover,      \* CLI scripts: the "pushover" argument was given
    credentials,      \* PUSHOVER_TOKEN and PUSHOVER_USER are both set
    feed,             \* what the fiat-rate feed will answer
    atlasUsd,         \* what getAtlasUsdPrice returned
    result,           \* the totals and net figures of the calculator
    message,          \* the final message
    out,              \* what was printed or sent, in order
    calls,            \* the external calls of the run, started and ended
    inv,              \* app.js: the command invocations in progress
    pc                \* position of the run

vars == <<argv, variant, rentalPrices, query, rent, now, hours, basesMapping, src, pos,
          fleetData, fleetDataDynamic, fleetData24h, market, quote, usePushover,
          credentials, feed, atlasUsd, result, message, out, calls, inv, pc>>

\* the variables of the steps after the price query
reportVars == <<usePushover, credentials, feed, atlasUsd, result, message, out>>

Variants == {"rc1", "local", "eff", "chat"}

(***************************************************************************)
(* JavaScript values.                                                      *)
(***************************************************************************)
Num(n) == [t |-> "num", n |-> n]
NaN == [t |-> "nan", n |-> 0]
\* the string "N/A"
NA == [t |-> "N/A", n |-> 0]
\* a string whose text is the decimal numeral n
NumText(n) == [t |-> "numtext", n |-> n]
\* a non-empty string that does not start with a numeral
JunkText == [t |-> "junk", n |-> 0]
\* the empty string
EmptyText == [t |-> "empty", n |-> 0]
\* nothing was computed
None == [t |-> "none", n |-> 0]

parseFloat(v) ==
    CASE v.t = "num" -> v
      [] v.t = "numtext" -> Num(v.n)
      [] OTHER -> NaN

isNaN(v) == v.t /= "num"

\* JavaScript truthiness of a value
Truthy(v) ==
    CASE v.t = "num" -> v.n /= 0
      [] v.t = "nan" -> FALSE
      [] v.t = "empty" -> FALSE
      [] v.t = "none" -> FALSE
      [] OTHER -> TRUE

(***************************************************************************)
(* Strings as sequences of characters.                                     *)
(***************************************************************************)
IsSpace(c) == c = " "

LowerChar(c) ==
    CASE c = "A" -> "a"
      [] c = "B" -> "b"
      [] c = "E" -> "e"
      [] c = "H" -> "h"
      [] c = "L" -> "l"
      [] c = "M" -> "m"
      [] c = "N" -> "n"
      [] c = "O" -> "o"
      [] c = "P" -> "p"
      [] c = "T" -> "t"
      [] OTHER -> c

toLowerCase(s) == [i \in DOMAIN s |-> LowerChar(s[i])]

RECURSIVE trimStart(_)
trimStart(s) ==
    IF s /= <<>> /\ IsSpace(Head(s)) THEN trimStart(Tail(s)) ELSE s

RECURSIVE trimEnd(_)
trimEnd(s) ==
    IF s /= <<>> /\ IsSpace(s[Len(s)])
    THEN trimEnd(SubSeq(s, 1, Len(s) - 1))
    ELSE s

trim(s) == trimEnd(trimStart(s))

\* s.split(d): the pieces of s between the occurrences of the character d
RECURSIVE split(_, _)
split(s, d) ==
    IF \A i \in DOMAIN s : s[i] /= d
    THEN <<s>>
    ELSE LET k == CHOOSE i \in DOMAIN s :
                      s[i] = d /\ \A j \in 1..(i - 1) : s[j] /= d
         IN  <<SubSeq(s, 1, k - 1)>> \o split(SubSeq(s, k + 1, Len(s)), d)

\* parts.join(sep)
RECURSIVE join(_, _)
join(parts, sep) ==
    IF Len(parts) = 0 THEN <<>>
    ELSE IF Len(parts) = 1 THEN parts[1]
    ELSE parts[1] \o sep \o join(Tail(parts), sep)

\* s.includes(sub)
includes(s, sub) ==
    \E i \in 0..(Len(s) - Len(sub)) :
        \A j \in 1..Len(sub) : s[i + j] = sub[j]

Lemon == <<"l", "e", "m", "o", "n">>

(***************************************************************************)
(* Rental rate table.  The environment is a sequence of entries            *)
(* [rental |-> the key starts with "RENTAL_", name |-> the rest of the     *)
(* key, value |-> the value text], in the order Object.entries gives.      *)
(***************************************************************************)
Put(m, k, v) == [x \in (DOMAIN m) \cup {k} |-> IF x = k THEN v ELSE m[x]]

EmptyObject == [x \in {} |-> None]

KeyToFleetName(name) ==
    join([i \in DOMAIN split(name, "_") |-> toLowerCase(split(name, "_")[i])],
         <<" ">>)

\* anal_rc1.js, app_local_pushover.js, efficiency.js: values are parsed
RECURSIVE loadRentalPrices(_)
loadRentalPrices(env) ==
    IF env = <<>> THEN EmptyObject
    ELSE LET rest == loadRentalPrices(SubSeq(env, 1, Len(env) - 1))
             e == env[Len(env)]
         IN  IF e.rental
             THEN Put(rest, KeyToFleetName(e.name), parseFloat(e.value))
             ELSE rest

\* app.js: values are kept as the text of the environment
RECURSIVE buildRentalPricesFromEnv(_)
buildRentalPricesFromEnv(env) ==
    IF env = <<>> THEN EmptyObject
    ELSE LET rest == buildRentalPricesFromEnv(SubSeq(env, 1, Len(env) - 1))
             e == env[Len(env)]
         IN  IF e.rental
             THEN Put(rest, KeyToFleetName(e.name), e.value)
             ELSE rest

\* anal_rc1.js, app_local_pushover.js, efficiency.js
getRentalCost(table, fleet) ==
    LET normalizedFleet == trim(toLowerCase(fleet))
    IN  IF normalizedFleet \in DOMAIN table
        THEN table[normalizedFleet]
        ELSE NA

\* app.js
getRentalCost_app(table, fleet) ==
    LET normalizedFleet == trim(toLowerCase(fleet))
    IN  IF includes(normalizedFleet, Lemon) THEN NA
        ELSE IF normalizedFleet \in DOMAIN table /\ Truthy(table[normalizedFleet])
        THEN table[normalizedFleet]
        ELSE NA

RentalTableOf(v, env) ==
    IF v = "chat" THEN buildRentalPricesFromEnv(env) ELSE loadRentalPrices(env)

RentalCostOf(v, table, fleet) ==
    IF v = "chat" THEN getRentalCost_app(table, fleet)
    ELSE getRentalCost(table, fleet)

(***************************************************************************)
(* Record aggregator.  Times are milliseconds.  A row is                   *)
(*   [Timestamp, FleetName, SDUCount, StarbaseCoordinate, Starbase]        *)
(* where Timestamp is [t, ms] with t one of                                *)
(*   "missing"  no or empty cell                                           *)
(*   "invalid"  text no Date constructor call understands                  *)
(*   "date"     text new Date(text) understands, the instant ms            *)
(*   "alt"      text understood only after app.js rewrites it              *)
(* FleetName is a character sequence (<<>> is a missing or empty cell),    *)
(* SDUCount is EmptyText, JunkText or NumText(n), and the two location     *)
(* cells are strings ("" missing, " " blank).                              *)
(***************************************************************************)
MsPerHour == 60 * 60 * 1000

TsMissing == [t |-> "missing", ms |-> 0]
TsInvalid == [t |-> "invalid", ms |-> 0]
TsDate(ms) == [t |-> "date", ms |-> ms]
TsAlt(ms) == [t |-> "alt", ms |-> ms]

\* new Date(row.Timestamp)
NewDate(ts) == IF ts.t = "date" THEN Num(ts.ms) ELSE NaN

\* new Date(row.Timestamp.replace(/-/g, "/").replace(" ", "T"))
NewDateReformatted(ts) == IF ts.t = "alt" THEN Num(ts.ms) ELSE NaN

\* parseInt(text, 10)
parseInt(v) == IF v.t = "numtext" THEN Num(v.n) ELSE NaN

\* x || 0 for a number x
OrZero(v) == IF Truthy(v) THEN v.n ELSE 0

\* String.prototype.trim on a location cell
TrimCell(s) == IF s = " " THEN "" ELSE s

\* ordered objects: sequences of entries with a key field
Keys(obj) == {obj[i].key : i \in DOMAIN obj}

IndexOfKey(obj, k) == CHOOSE i \in DOMAIN obj : obj[i].key = k

HasKey(obj, k) == k \in Keys(obj)

NewFleet(fleet) == [key |-> fleet, SDUs |-> 0, SDUs24h |-> 0, baseName |-> ""]

\* loadBasesMapping: a line of the .bases file is the sequence of its parts,
\* line.trim().split(/[\s,]+/); a line of fewer than two parts is skipped, and
\* a later line of the same coordinate replaces an earlier one
RECURSIVE loadBasesMapping(_)
loadBasesMapping(lines) ==
    IF lines = <<>> THEN EmptyObject
    ELSE LET rest == loadBasesMapping(SubSeq(lines, 1, Len(lines) - 1))
             parts == lines[Len(lines)]
         IN  IF Len(parts) >= 2 THEN Put(rest, parts[1], parts[2]) ELSE rest

\* basesMapping[starbaseKey] || "Unknown"
BaseNameOf(bases, starbaseKey) ==
    IF starbaseKey \in DOMAIN bases /\ bases[starbaseKey] /= ""
    THEN bases[starbaseKey]
    ELSE "Unknown"

\* the handler, were the 24h bound exclusive
processCSV_data_after(fd, row, since, last24h, bases) ==
    IF row.Timestamp.t = "missing" \/ row.FleetName = <<>> \/ ~Truthy(row.SDUCount)
    THEN fd
    ELSE
    LET timestamp == NewDate(row.Timestamp) IN
    IF isNaN(timestamp) THEN fd
    ELSE
    LET fleet == trim(row.FleetName)
        sduCount == OrZero(parseInt(row.SDUCount))
        fd1 == IF HasKey(fd, fleet) THEN fd ELSE Append(fd, NewFleet(fleet))
        i == IndexOfKey(fd1, fleet)
        fd2 == IF timestamp.n >= since
               THEN [fd1 EXCEPT ![i].SDUs = @ + sduCount]
               ELSE fd1
        fd3 == IF timestamp.n > last24h
               THEN [fd2 EXCEPT ![i].SDUs24h = @ + sduCount]
               ELSE fd2
        starbaseKey ==
            IF row.StarbaseCoordinate /= "" /\ TrimCell(row.StarbaseCoordinate) /= ""
            THEN TrimCell(row.StarbaseCoordinate)
            ELSE IF row.Starbase /= "" /\ TrimCell(row.Starbase) /= ""
            THEN TrimCell(row.Starbase)
            ELSE ""
    IN  IF starbaseKey /= ""
        THEN [fd3 EXCEPT ![i].baseName = BaseNameOf(bases, starbaseKey)]
        ELSE fd3

\* the handler, were the base name of a fleet set only once
processCSV_data_first(fd, row, since, last24h, bases) ==
    IF row.Timestamp.t = "missing" \/ row.FleetName = <<>> \/ ~Truthy(row.SDUCount)
    THEN fd
    ELSE
    LET timestamp == NewDate(row.Timestamp) IN
    IF isNaN(timestamp) THEN fd
    ELSE
    LET fleet == trim(row.FleetName)
        sduCount == OrZero(parseInt(row.SDUCount))
        fd1 == IF HasKey(fd, fleet) THEN fd ELSE Append(fd, NewFleet(fleet))
        i == IndexOfKey(fd1, fleet)
        fd2 == IF timestamp.n >= since
               THEN [fd1 EXCEPT ![i].SDUs = @ + sduCount]
               ELSE fd1
        fd3 == IF timestamp.n >= last24h
               THEN [fd2 EXCEPT ![i].SDUs24h = @ + sduCount]
               ELSE fd2
        starbaseKey ==
            IF row.StarbaseCoordinate /= "" /\ TrimCell(row.StarbaseCoordinate) /= ""
            THEN TrimCell(row.StarbaseCoordinate)
            ELSE IF row.Starbase /= "" /\ TrimCell(row.Starbase) /= ""
            THEN TrimCell(row.Starbase)
            ELSE ""
    IN  IF starbaseKey /= "" /\ fd3[i].baseName = ""
        THEN [fd3 EXCEPT ![i].baseName = BaseNameOf(bases, starbaseKey)]
        ELSE fd3

\* the handler, were the two window bounds exchanged
processCSV_data_swapped(fd, row, since, last24h, bases) ==
    IF row.Timestamp.t = "missing" \/ row.FleetName = <<>> \/ ~Truthy(row.SDUCount)
    THEN fd
    ELSE
    LET timestamp == NewDate(row.Timestamp) IN
    IF isNaN(timestamp) THEN fd
    ELSE
    LET fleet == trim(row.FleetName)
        sduCount == OrZero(parseInt(row.SDUCount))
        fd1 == IF HasKey(fd, fleet) THEN fd ELSE Append(fd, NewFleet(fleet))
        i == IndexOfKey(fd1, fleet)
        fd2 == IF timestamp.n >= last24h
               THEN [fd1 EXCEPT ![i].SDUs = @ + sduCount]
               ELSE fd1
        fd3 == IF timestamp.n >= since
               THEN [fd2 EXCEPT ![i].SDUs24h = @ + sduCount]
               ELSE fd2
        starbaseKey ==
            IF row.StarbaseCoordinate /= "" /\ TrimCell(row.StarbaseCoordinate) /= ""
            THEN TrimCell(row.StarbaseCoordinate)
            ELSE IF row.Starbase /= "" /\ TrimCell(row.Starbase) /= ""
            THEN TrimCell(row.Starbase)
            ELSE ""
    IN  IF starbaseKey /= ""
        THEN [fd3 EXCEPT ![i].baseName = BaseNameOf(bases, starbaseKey)]
        ELSE fd3

\* anal_rc1.js processCSV: the 'data' handler
processCSV_data(fd, row, since, last24h, bases) ==
    IF row.Timestamp.t = "missing" \/ row.FleetName = <<>> \/ ~Truthy(row.SDUCount)
    THEN fd
    ELSE
    LET timestamp == NewDate(row.Timestamp) IN
    IF isNaN(timestamp) THEN fd
    ELSE
    LET fleet == trim(row.FleetName)
        sduCount == OrZero(parseInt(row.SDUCount))
        fd1 == IF HasKey(fd, fleet) THEN fd ELSE Append(fd, NewFleet(fleet))
        i == IndexOfKey(fd1, fleet)
        fd2 == IF timestamp.n >= since
               THEN [fd1 EXCEPT ![i].SDUs = @ + sduCount]
               ELSE fd1
        fd3 == IF timestamp.n >= last24h
               THEN [fd2 EXCEPT ![i].SDUs24h = @ + sduCount]
               ELSE fd2
        starbaseKey ==
            IF row.StarbaseCoordinate /= "" /\ TrimCell(row.StarbaseCoordinate) /= ""
            THEN TrimCell(row.StarbaseCoordinate)
            ELSE IF row.Starbase /= "" /\ TrimCell(row.Starbase) /= ""
            THEN TrimCell(row.Starbase)
            ELSE ""
    IN  IF starbaseKey /= ""
        THEN [fd3 EXCEPT ![i].baseName = BaseNameOf(bases, starbaseKey)]
        ELSE fd3

\* app_local_pushover.js and efficiency.js processCSV: the 'data' handler
\* (entries have no baseName; the field stays "")
processCSV_data_local(fd, row, since, last24h) ==
    IF row.Timestamp.t = "missing" \/ row.FleetName = <<>> \/ ~Truthy(row.SDUCount)
    THEN fd
    ELSE
    LET timestamp == NewDate(row.Timestamp) IN
    IF isNaN(timestamp) THEN fd
    ELSE
    LET fleet == trim(row.FleetName)
        sduCount == OrZero(parseInt(row.SDUCount))
        fd1 == IF HasKey(fd, fleet) THEN fd ELSE Append(fd, NewFleet(fleet))
        i == IndexOfKey(fd1, fleet)
        fd2 == IF timestamp.n >= since
               THEN [fd1 EXCEPT ![i].SDUs = @ + sduCount]
               ELSE fd1
    IN  IF timestamp.n >= last24h
        THEN [fd2 EXCEPT ![i].SDUs24h = @ + sduCount]
        ELSE fd2

\* app.js: the fleet name "Unknown" given to a row without one
UnknownFleet == <<"U", "n", "k", "n", "o", "w", "n">>

\* obj[fleet] = (obj[fleet] || 0) + n on an ordered fleet -> count object
AddCount(obj, fleet, n) ==
    IF HasKey(obj, fleet)
    THEN [obj EXCEPT ![IndexOfKey(obj, fleet)].count = @ + n]
    ELSE Append(obj, [key |-> fleet, count |-> n])

\* obj[fleet] || 0
CountOfKey(obj, fleet) ==
    IF HasKey(obj, fleet) THEN obj[IndexOfKey(obj, fleet)].count ELSE 0

\* app.js analyzeAndFormatMessage: the timestamp a row is given, or NaN
Timestamp_app(row) ==
    IF row.Timestamp.t = "missing" THEN NaN
    ELSE IF ~isNaN(NewDate(row.Timestamp)) THEN NewDate(row.Timestamp)
    ELSE NewDateReformatted(row.Timestamp)

\* app.js analyzeAndFormatMessage: the 'data' handler, on the pair of objects
analyze_data(maps, row, startTimeDynamic, startTime24h) ==
    LET timestamp == Timestamp_app(row) IN
    IF isNaN(timestamp) THEN maps
    ELSE
    LET fleet == IF row.FleetName /= <<>> THEN trim(row.FleetName) ELSE UnknownFleet
        sduFound == OrZero(parseInt(row.SDUCount))
    IN  [dyn |-> IF timestamp.n >= startTimeDynamic
                 THEN AddCount(maps.dyn, fleet, sduFound)
                 ELSE maps.dyn,
         day |-> IF timestamp.n >= startTime24h
                 THEN AddCount(maps.day, fleet, sduFound)
                 ELSE maps.day]

Since(n, h) == n - h * MsPerHour

Last24h(n) == n - 24 * MsPerHour

(***************************************************************************)
(* Units.  Unit prices of market orders (uiPrice) are integers in units of *)
(* 1/UiScale ATLAS; a quoted price is a numeral with six decimals, held as *)
(* an integer number of millionths.                                        *)
(***************************************************************************)
UiScale == 10 ^ 7
QuoteScale == 10 ^ 6

\* the nearest integer to num/den (den > 0), halves away from zero: what
\* Number.prototype.toFixed does with the decimal value
RoundDiv(num, den) ==
    IF num >= 0
    THEN (2 * num + den) \div (2 * den)
    ELSE -((2 * (-num) + den) \div (2 * den))

(***************************************************************************)
(* Price resolver (src/sdu_price.js).  The market answers                  *)
(* [t |-> "orders", orders |-> a sequence of orders] or [t |-> "throws"].  *)
(* An order is [orderType, orderMint, currencyMint, uiPrice,               *)
(* orderOriginationQty, owner]; a mint is "SDU", "ATLAS", "OTHER" or "bad" *)
(* (text that new PublicKey rejects by throwing).                          *)
(***************************************************************************)
\* uiPrice >= 0.01
MinUiPrice == UiScale \div 100

NullQuote == [price |-> None, quantity |-> None, seller |-> None]

\* what the caller would see if an error were raised instead of a quote
RaisedQuote == [price |-> None, quantity |-> None, seller |-> None, raised |-> TRUE]

FilterSeq(q, Keep(_)) ==
    LET F[i \in 0..Len(q)] ==
            IF i = 0 THEN <<>>
            ELSE IF Keep(q[i]) THEN Append(F[i - 1], q[i]) ELSE F[i - 1]
    IN  F[Len(q)]

\* the first element of a stable ascending sort by uiPrice
FirstByPrice(q) ==
    q[CHOOSE i \in DOMAIN q :
          /\ \A j \in DOMAIN q : q[i].uiPrice <= q[j].uiPrice
          /\ \A j \in 1..(i - 1) : q[j].uiPrice > q[i].uiPrice]

\* parseFloat(uiPrice).toFixed(6), in millionths
ToFixed6(uiPrice) == RoundDiv(uiPrice, UiScale \div QuoteScale)

\* the resolver, were the price floor left out
getLowestSDUPrice_nofloor(answer) ==
    IF answer.t = "throws" THEN NullQuote
    ELSE
    LET IsSell(o) == o.orderType = "sell"
        sells == FilterSeq(answer.orders, IsSell)
        IsSdu(o) == o.orderMint = "SDU"
        sdus == FilterSeq(sells, IsSdu)
        IsAtlas(o) == o.currencyMint = "ATLAS"
        atlases == FilterSeq(sdus, IsAtlas)
        AboveFloor(o) == TRUE
        sduOrders == FilterSeq(atlases, AboveFloor)
    IN  IF \/ \E i \in DOMAIN sells : sells[i].orderMint = "bad"
           \/ \E i \in DOMAIN sdus : sdus[i].currencyMint = "bad"
        THEN NullQuote
        ELSE IF Len(sduOrders) = 0 THEN NullQuote
        ELSE LET lowestOrder == FirstByPrice(sduOrders)
             IN  [price |-> NumText(ToFixed6(lowestOrder.uiPrice)),
                  quantity |-> IF lowestOrder.orderOriginationQty /= 0
                               THEN Num(lowestOrder.orderOriginationQty)
                               ELSE JunkText,
                  seller |-> lowestOrder.owner]

\* the resolver, were the failed query not caught
getLowestSDUPrice_nocatch(answer) ==
    IF answer.t = "throws" THEN RaisedQuote
    ELSE
    LET IsSell(o) == o.orderType = "sell"
        sells == FilterSeq(answer.orders, IsSell)
        IsSdu(o) == o.orderMint = "SDU"
        sdus == FilterSeq(sells, IsSdu)
        IsAtlas(o) == o.currencyMint = "ATLAS"
        atlases == FilterSeq(sdus, IsAtlas)
        AboveFloor(o) == o.uiPrice >= MinUiPrice
        sduOrders == FilterSeq(atlases, AboveFloor)
    IN  IF \/ \E i \in DOMAIN sells : sells[i].orderMint = "bad"
           \/ \E i \in DOMAIN sdus : sdus[i].currencyMint = "bad"
        THEN NullQuote
        ELSE IF Len(sduOrders) = 0 THEN NullQuote
        ELSE LET lowestOrder == FirstByPrice(sduOrders)
             IN  [price |-> NumText(ToFixed6(lowestOrder.uiPrice)),
                  quantity |-> IF lowestOrder.orderOriginationQty /= 0
                               THEN Num(lowestOrder.orderOriginationQty)
                               ELSE JunkText,
                  seller |-> lowestOrder.owner]

getLowestSDUPrice(answer) ==
    IF answer.t = "throws" THEN NullQuote
    ELSE
    LET IsSell(o) == o.orderType = "sell"
        sells == FilterSeq(answer.orders, IsSell)
        IsSdu(o) == o.orderMint = "SDU"
        sdus == FilterSeq(sells, IsSdu)
        IsAtlas(o) == o.currencyMint = "ATLAS"
        atlases == FilterSeq(sdus, IsAtlas)
        AboveFloor(o) == o.uiPrice >= MinUiPrice
        sduOrders == FilterSeq(atlases, AboveFloor)
    IN  IF \/ \E i \in DOMAIN sells : sells[i].orderMint = "bad"
           \/ \E i \in DOMAIN sdus : sdus[i].currencyMint = "bad"
        THEN NullQuote
        ELSE IF Len(sduOrders) = 0 THEN NullQuote
        ELSE LET lowestOrder == FirstByPrice(sduOrders)
             IN  [price |-> NumText(ToFixed6(lowestOrder.uiPrice)),
                  quantity |-> IF lowestOrder.orderOriginationQty /= 0
                               THEN Num(lowestOrder.orderOriginationQty)
                               ELSE JunkText,
                  seller |-> lowestOrder.owner]

(***************************************************************************)
(* Fiat rate (getAtlasUsdPrice).  The feed answers [t |-> "throws"] or    *)
(* [t |-> "usd", usd |-> v], with v = None when the answer has no usd      *)
(* value.                                                                  *)
(* A rate is an integer number of 1/UsdScale USD per ATLAS.                *)
(***************************************************************************)
UsdScale == 10 ^ 4

\* 0.0013
FallbackUsd == 13

\* anal_rc1.js, app_local_pushover.js, efficiency.js
getAtlasUsdPrice(answer) ==
    IF answer.t = "usd" /\ Truthy(answer.usd) THEN answer.usd
    ELSE Num(FallbackUsd)

\* app.js, with the caller's "atlasUsdPrice || 0.0013"
getAtlasUsdPrice_app(answer) ==
    LET atlasUsdPrice ==
            IF answer.t = "usd" /\ Truthy(answer.usd) THEN parseFloat(answer.usd)
            ELSE Num(FallbackUsd)
    IN  IF Truthy(atlasUsdPrice) THEN atlasUsdPrice ELSE Num(FallbackUsd)

(***************************************************************************)
(* Profit calculator.  A price is an integer number of 1/PriceScale ATLAS, *)
(* a rental rate an integer number of ATLAS.  Values, rents and net        *)
(* figures are integers in units of 1/(24 * PriceScale) ATLAS, so that the *)
(* prorated rent rentNum * (hours / 24) is exact.                          *)
(***************************************************************************)
PriceScale == 10 ^ 4

\* parseFloat(price) of a quoted price, in price units
CurrentPrice(price) == price.n \div (QuoteScale \div PriceScale)

\* count * price, in amount units
Value(count, price) == count * price * 24

\* rentNum, in amount units
Rent24h(rentNum) == rentNum * PriceScale * 24

\* the rent of the window, were it not prorated
Prorated_whole(rentNum, h) == rentNum * PriceScale * 24

\* rentNum * (hours / 24), in amount units
Prorated(rentNum, h) == rentNum * PriceScale * h

ZeroTotals ==
    [totalValDynamic |-> 0, totalVal24h |-> 0,
     totalRentDynamic |-> 0, totalRent24h |-> 0,
     rentedValDynamic |-> 0, rentedVal24h |-> 0,
     rentedRentDynamic |-> 0, rentedRent24h |-> 0,
     ownedValDynamic |-> 0, ownedVal24h |-> 0]

\* one pass of the loop, were every fleet with a non-zero rate counted as rented
AddFleet_nonzero(acc, SDUs, SDUs24h, rentValue, price, h) ==
    LET valDynamic == Value(SDUs, price)
        val24h == Value(SDUs24h, price)
        rentNum == parseFloat(rentValue)
        all == [acc EXCEPT !.totalValDynamic = @ + valDynamic,
                           !.totalVal24h = @ + val24h]
    IN  IF ~isNaN(rentNum) /\ rentNum.n /= 0
        THEN [all EXCEPT !.totalRent24h = @ + Rent24h(rentNum.n),
                         !.totalRentDynamic = @ + Prorated(rentNum.n, h),
                         !.rentedValDynamic = @ + valDynamic,
                         !.rentedVal24h = @ + val24h,
                         !.rentedRentDynamic = @ + Prorated(rentNum.n, h),
                         !.rentedRent24h = @ + Rent24h(rentNum.n)]
        ELSE [all EXCEPT !.ownedValDynamic = @ + valDynamic,
                         !.ownedVal24h = @ + val24h]

\* one pass of the loop over the fleets (anal_rc1.js 340-360, app.js 244-272)
AddFleet(acc, SDUs, SDUs24h, rentValue, price, h) ==
    LET valDynamic == Value(SDUs, price)
        val24h == Value(SDUs24h, price)
        rentNum == parseFloat(rentValue)
        all == [acc EXCEPT !.totalValDynamic = @ + valDynamic,
                           !.totalVal24h = @ + val24h]
    IN  IF ~isNaN(rentNum) /\ rentNum.n > 0
        THEN [all EXCEPT !.totalRent24h = @ + Rent24h(rentNum.n),
                         !.totalRentDynamic = @ + Prorated(rentNum.n, h),
                         !.rentedValDynamic = @ + valDynamic,
                         !.rentedVal24h = @ + val24h,
                         !.rentedRentDynamic = @ + Prorated(rentNum.n, h),
                         !.rentedRent24h = @ + Rent24h(rentNum.n)]
        ELSE [all EXCEPT !.ownedValDynamic = @ + valDynamic,
                         !.ownedVal24h = @ + val24h]

\* the net figures, were the owned value left out of the overall 24h net
WithNets_unowned(t) ==
    [totals |-> t,
     net24h |-> t.rentedVal24h - t.totalRent24h,
     netDynamic |-> t.totalValDynamic - t.totalRentDynamic,
     netRented24h |-> t.rentedVal24h - t.rentedRent24h,
     netRentedDynamic |-> t.rentedValDynamic - t.rentedRentDynamic,
     netOwned24h |-> t.ownedVal24h,
     netOwnedDynamic |-> t.ownedValDynamic]

\* the net figures, were the window nets charged the rent of 24 hours
WithNets_unprorated(t) ==
    [totals |-> t,
     net24h |-> t.totalVal24h - t.totalRent24h,
     netDynamic |-> t.totalValDynamic - t.totalRent24h,
     netRented24h |-> t.rentedVal24h - t.rentedRent24h,
     netRentedDynamic |-> t.rentedValDynamic - t.rentedRent24h,
     netOwned24h |-> t.ownedVal24h,
     netOwnedDynamic |-> t.ownedValDynamic]

\* the net figures (anal_rc1.js 362-367, app.js 285-290)
WithNets(t) ==
    [totals |-> t,
     net24h |-> t.totalVal24h - t.totalRent24h,
     netDynamic |-> t.totalValDynamic - t.totalRentDynamic,
     netRented24h |-> t.rentedVal24h - t.rentedRent24h,
     netRentedDynamic |-> t.rentedValDynamic - t.rentedRentDynamic,
     netOwned24h |-> t.ownedVal24h,
     netOwnedDynamic |-> t.ownedValDynamic]

\* analyzeAndFormatLocal of the three CLI scripts, after the awaits
analyzeAndFormatLocal(fd, table, price, h) ==
    LET Loop[i \in 0..Len(fd)] ==
            IF i = 0 THEN ZeroTotals
            ELSE AddFleet(Loop[i - 1], fd[i].SDUs, fd[i].SDUs24h,
                          getRentalCost(table, fd[i].key), price, h)
    IN  WithNets(Loop[Len(fd)])

\* app.js: new Set([...Object.keys(dyn), ...Object.keys(day)]), in order
allFleets(dyn, day) ==
    LET IsNew(e) == ~HasKey(dyn, e.key)
        both == dyn \o FilterSeq(day, IsNew)
    IN  [i \in DOMAIN both |-> both[i].key]

\* app.js analyzeAndFormatMessage: the totals of the 'end' handler
analyzeAndFormatMessage(dyn, day, table, price, h) ==
    LET fleets == allFleets(dyn, day)
        Loop[i \in 0..Len(fleets)] ==
            IF i = 0 THEN ZeroTotals
            ELSE AddFleet(Loop[i - 1], CountOfKey(dyn, fleets[i]),
                          CountOfKey(day, fleets[i]),
                          getRentalCost_app(table, fleets[i]), price, h)
    IN  WithNets(Loop[Len(fleets)])

(***************************************************************************)
(* Report renderer.  A rendered fleet section is                           *)
(*   [t |-> "notice"]  the "No data for the last N hours" line             *)
(*   [t |-> "table"]   heading, header, separator and one row per entry    *)
(*   [t |-> "list"]    heading and one bullet block per entry              *)
(* with the cells of its rows as values: amounts shown with two decimals   *)
(* are integers of hundredths, a percentage is [t |-> "pct", n |-> k], and *)
(* the texts "Infinity", "-Infinity" and "NaN" are records named so.       *)
(***************************************************************************)
Pct(k) == [t |-> "pct", n |-> k]
InfinityText == [t |-> "Infinity", n |-> 0]
MinusInfinityText == [t |-> "-Infinity", n |-> 0]
NaNText == [t |-> "NaN", n |-> 0]

\* (count * price).toFixed(2), in hundredths
ValFixed2(count, price) == RoundDiv(count * price, PriceScale \div 100)

\* amount.toFixed(2) of an amount in amount units, in hundredths
AmountFixed2(a) == RoundDiv(a, 24 * (PriceScale \div 100))

\* (amount * atlasUsd).toFixed(2), in hundredths, or "NaN"
FiatFixed2(a, usd) ==
    IF usd.t \in {"num", "numtext"}
    THEN Num(RoundDiv(a * usd.n, 24 * PriceScale * (UsdScale \div 100)))
    ELSE NaNText

\* the ROI cell, were the ratio not scaled to percent
RoiText_ratio(count, price, rentNum) ==
    IF rentNum > 0 THEN Pct(RoundDiv(count * price, rentNum * PriceScale))
    ELSE IF rentNum < 0
    THEN Pct(-RoundDiv(count * price * 100, (-rentNum) * PriceScale))
    ELSE IF count * price > 0 THEN InfinityText
    ELSE IF count * price < 0 THEN MinusInfinityText
    ELSE NaNText

\* ((count * price) / rentNum * 100).toFixed(0) + "%"
RoiText(count, price, rentNum) ==
    IF rentNum > 0 THEN Pct(RoundDiv(count * price * 100, rentNum * PriceScale))
    ELSE IF rentNum < 0
    THEN Pct(-RoundDiv(count * price * 100, (-rentNum) * PriceScale))
    ELSE IF count * price > 0 THEN InfinityText
    ELSE IF count * price < 0 THEN MinusInfinityText
    ELSE NaNText

\* a.localeCompare(b) < 0 on the base names of the model
BaseRank(b) ==
    CASE b = "" -> 0
      [] b = "Hub" -> 1
      [] OTHER -> 2

\* Object.entries(fleetData).sort(by baseName): a stable sort
SortByBase(fd) ==
    LET Insert(sorted, e) ==
            LET k == Cardinality({i \in DOMAIN sorted :
                         BaseRank(sorted[i].baseName) <= BaseRank(e.baseName)})
            IN  SubSeq(sorted, 1, k) \o <<e>> \o SubSeq(sorted, k + 1, Len(sorted))
        S[i \in 0..Len(fd)] == IF i = 0 THEN <<>> ELSE Insert(S[i - 1], fd[i])
    IN  S[Len(fd)]

FleetRow(e, price, rentCell, roi) ==
    [Fleet |-> e.key, Base |-> e.baseName,
     SDUs |-> e.SDUs, Val |-> ValFixed2(e.SDUs, price),
     SDUs24h |-> e.SDUs24h, Val24h |-> ValFixed2(e.SDUs24h, price),
     Rent |-> rentCell, ROI |-> roi]

Notice(h) == [t |-> "notice", hours |-> h, rows |-> <<>>]

\* anal_rc1.js formatFleetTable
formatFleetTable(fd, h, price, table) ==
    IF Len(fd) = 0 THEN Notice(h)
    ELSE
    LET sortedEntries == SortByBase(fd)
        RowOf(e) ==
            LET r == getRentalCost(table, e.key)
                roi == IF r /= NA /\ ~isNaN(parseFloat(r)) /\ parseFloat(r).n > 0
                       THEN RoiText(e.SDUs24h, price, parseFloat(r).n)
                       ELSE NA
            IN  FleetRow(e, price, r, roi)
    IN  [t |-> "table", hours |-> h,
         rows |-> [i \in DOMAIN sortedEntries |-> RowOf(sortedEntries[i])]]

\* app_local_pushover.js and efficiency.js formatFleetTable
formatFleetTable_local(fd, h, price, table) ==
    IF Len(fd) = 0 THEN Notice(h)
    ELSE
    LET RowOf(e) ==
            LET r == getRentalCost(table, e.key)
                roi == IF r /= NA /\ r.t = "num" /\ r.n > 0
                       THEN RoiText(e.SDUs24h, price, r.n)
                       ELSE NA
            IN  FleetRow(e, price, r, roi)
    IN  [t |-> "table", hours |-> h, rows |-> [i \in DOMAIN fd |-> RowOf(fd[i])]]

\* the bullet blocks of the fleets whose rent is a number
MobileBlocks(entries, price, table) ==
    LET Shown(e) ==
            LET r == getRentalCost(table, e.key)
            IN  ~(r = NA \/ isNaN(parseFloat(r)))
        BlockOf(e) ==
            LET r == getRentalCost(table, e.key)
            IN  FleetRow(e, price, r, RoiText(e.SDUs24h, price, parseFloat(r).n))
        shown == FilterSeq(entries, Shown)
    IN  [i \in DOMAIN shown |-> BlockOf(shown[i])]

\* anal_rc1.js formatFleetTableMobile
formatFleetTableMobile(fd, h, price, table) ==
    IF Len(fd) = 0 THEN Notice(h)
    ELSE [t |-> "list", hours |-> h,
          rows |-> MobileBlocks(SortByBase(fd), price, table)]

\* app_local_pushover.js formatFleetTableMobile
formatFleetTableMobile_local(fd, h, price, table) ==
    [t |-> "list", hours |-> h, rows |-> MobileBlocks(fd, price, table)]

\* app.js: the tableData rows of the 'end' handler, then formatFleetTable
formatFleetTable_app(dyn, day, h, price, table) ==
    LET fleets == allFleets(dyn, day)
        RowOf(fleet) ==
            LET rentStr == getRentalCost_app(table, fleet)
                rentNum == parseFloat(rentStr)
                e == [key |-> fleet, baseName |-> "",
                      SDUs |-> CountOfKey(dyn, fleet),
                      SDUs24h |-> CountOfKey(day, fleet)]
                roi == IF ~isNaN(rentNum) /\ rentNum.n > 0
                       THEN RoiText(e.SDUs24h, price, rentNum.n)
                       ELSE NA
            IN  FleetRow(e, price, rentStr, roi)
    IN  [t |-> "table", hours |-> h,
         rows |-> [i \in DOMAIN fleets |-> RowOf(fleets[i])]]

\* total > 0 ? ((val / total) * 100).toFixed(0) + "%" : "N/A"
SummaryRoi(val, total) ==
    IF total > 0 THEN Pct(RoundDiv(val * 100, total)) ELSE NA

SummaryRow(category, a24h, aDynamic, usd, roi) ==
    [Category |-> category,
     Atlas24h |-> AmountFixed2(a24h), Usd24h |-> FiatFixed2(a24h, usd),
     AtlasDynamic |-> AmountFixed2(aDynamic), UsdDynamic |-> FiatFixed2(aDynamic, usd),
     ROI |-> roi]

\* formatNetProfitSummary of the three CLI scripts
formatNetProfitSummary(r, h, usd) ==
    [t |-> "table", hours |-> h,
     rows |-> <<SummaryRow("Rented", r.netRented24h, r.netRentedDynamic, usd,
                           SummaryRoi(r.totals.rentedVal24h, r.totals.rentedRent24h)),
                SummaryRow("Owned", r.netOwned24h, r.netOwnedDynamic, usd, NA),
                SummaryRow("Overall", r.net24h, r.netDynamic, usd,
                           SummaryRoi(r.totals.totalVal24h, r.totals.totalRent24h))>>]

\* formatNetProfitSummaryMobile (anal_rc1.js, app_local_pushover.js) and
\* app.js formatNetProfitSummary: the same amounts, no ROI
SummaryWithoutRoi(kind, r, h, usd) ==
    [t |-> kind, hours |-> h,
     rows |-> <<SummaryRow("Rented", r.netRented24h, r.netRentedDynamic, usd, None),
                SummaryRow("Owned", r.netOwned24h, r.netOwnedDynamic, usd, None),
                SummaryRow("Overall", r.net24h, r.netDynamic, usd, None)>>]

formatNetProfitSummaryMobile(r, h, usd) == SummaryWithoutRoi("list", r, h, usd)

formatNetProfitSummary_app(r, h, usd) == SummaryWithoutRoi("table", r, h, usd)

\* anal_rc1.js buildFinalMessage: "Current SDU Price: ... ATLAS (... USD)"
PriceLine(price, usd) ==
    [atlas |-> RoundDiv(price, PriceScale \div 100),
     usd |-> IF usd.t \in {"num", "numtext"}
             THEN Num(RoundDiv(price * usd.n, PriceScale * (UsdScale \div 100)))
             ELSE NaNText]

\* the final message of a run: fleet section, summary, price line (if any)
FinalMessage(v, mobile, fd, dyn, day, r, h, price, usd, table) ==
    CASE v = "rc1" ->
           [fleet |-> IF mobile THEN formatFleetTableMobile(fd, h, price, table)
                      ELSE formatFleetTable(fd, h, price, table),
            summary |-> IF mobile THEN formatNetProfitSummaryMobile(r, h, usd)
                        ELSE formatNetProfitSummary(r, h, usd),
            priceLine |-> PriceLine(price, usd)]
      [] v = "local" ->
           [fleet |-> IF mobile THEN formatFleetTableMobile_local(fd, h, price, table)
                      ELSE formatFleetTable_local(fd, h, price, table),
            summary |-> IF mobile THEN formatNetProfitSummaryMobile(r, h, usd)
                        ELSE formatNetProfitSummary(r, h, usd),
            priceLine |-> None]
      [] v = "eff" ->
           [fleet |-> formatFleetTable_local(fd, h, price, table),
            summary |-> formatNetProfitSummary(r, h, usd),
            priceLine |-> None]
      [] v = "chat" ->
           [fleet |-> formatFleetTable_app(dyn, day, h, price, table),
            summary |-> formatNetProfitSummary_app(r, h, usd),
            priceLine |-> None]

(***************************************************************************)
(* Text of the wide fleet table: the header line, the separator line and   *)
(* the data lines that formatFleetTable joins with newlines, each a        *)
(* sequence of characters.  The heading line, and the code fence of        *)
(* app.js, are not part of the table.                                      *)
(***************************************************************************)
Digit(d) == <<"0", "1", "2", "3", "4", "5", "6", "7", "8", "9">>[d + 1]

RECURSIVE NatText(_)
NatText(n) ==
    IF n < 10 THEN <<Digit(n)>> ELSE Append(NatText(n \div 10), Digit(n % 10))

\* n.toString() of an integer
IntText(n) == IF n < 0 THEN <<"-">> \o NatText(-n) ELSE NatText(n)

\* x.toFixed(2), x in hundredths
Fixed2Text(x) ==
    LET a == IF x < 0 THEN -x ELSE x
    IN  (IF x < 0 THEN <<"-">> ELSE <<>>)
            \o NatText(a \div 100)
            \o <<".", Digit((a % 100) \div 10), Digit(a % 10)>>

\* data.baseName || ""
BaseText(b) ==
    CASE b = "" -> <<>>
      [] b = "Hub" -> <<"H", "u", "b">>
      [] OTHER -> <<"U", "n", "k", "n", "o", "w", "n">>

\* the text standing for a string that is no numeral
JunkChars == <<"a", "b", "c">>

\* String(v), v.toString()
CellText(v) ==
    CASE v.t \in {"num", "numtext"} -> IntText(v.n)
      [] v.t = "pct" -> Append(IntText(v.n), "%")
      [] v.t = "N/A" -> <<"N", "/", "A">>
      [] v.t \in {"nan", "NaN"} -> <<"N", "a", "N">>
      [] v.t = "Infinity" -> <<"I", "n", "f", "i", "n", "i", "t", "y">>
      [] v.t = "-Infinity" -> <<"-", "I", "n", "f", "i", "n", "i", "t", "y">>
      [] v.t = "junk" -> JunkChars
      [] OTHER -> <<>>

\* const headers = [...]
Headers(v) ==
    IF v = "rc1"
    THEN << <<"F", "l", "e", "e", "t">>, <<"B", "a", "s", "e">>,
            <<"S", "D", "U", "s">>, <<"V", "a", "l">>,
            <<"2", "4", "h", " ", "S", "D", "U", "s">>,
            <<"2", "4", "h", " ", "V", "a", "l">>,
            <<"R", "e", "n", "t">>, <<"R", "O", "I">> >>
    ELSE << <<"F", "l", "e", "e", "t">>,
            <<"S", "D", "U", "s">>, <<"V", "a", "l">>,
            <<"2", "4", "h", " ", "S", "D", "U", "s">>,
            <<"2", "4", "h", " ", "V", "a", "l">>,
            <<"R", "e", "n", "t">>, <<"R", "O", "I">> >>

\* the cells of a data row, as texts
RowCells(v, row) ==
    IF v = "rc1"
    THEN <<row.Fleet, BaseText(row.Base), IntText(row.SDUs), Fixed2Text(row.Val),
           IntText(row.SDUs24h), Fixed2Text(row.Val24h), CellText(row.Rent),
           CellText(row.ROI)>>
    ELSE <<row.Fleet, IntText(row.SDUs), Fixed2Text(row.Val),
           IntText(row.SDUs24h), Fixed2Text(row.Val24h), CellText(row.Rent),
           CellText(row.ROI)>>

\* c.repeat(n)
Repeat(c, n) == [i \in 1..n |-> c]

\* s.padEnd(w)
padEnd(s, w) == IF Len(s) >= w THEN s ELSE s \o Repeat(" ", w - Len(s))

\* the separator of the cells of a line
Gap == <<" ", " ", " ">>

\* the widths app_local_pushover.js pads its cells to, and its separator
FixedWidths == <<25, 7, 7, 7, 7, 5, 5>>
FixedSeparator == 85

\* the longest cell of column c over the header and the data rows
colWidths(v, rows) ==
    [c \in DOMAIN Headers(v) |->
        LET lens == {Len(Headers(v)[c])}
                       \cup {Len(RowCells(v, rows[i])[c]) : i \in DOMAIN rows}
        IN  CHOOSE w \in lens : \A x \in lens : x <= w]

\* the lines of the table of a fleet section [t |-> "table"]
TableLines(v, rows) ==
    IF v = "local"
    THEN [header |-> join(Headers(v), Gap),
          separator |-> Repeat("-", FixedSeparator),
          data |-> [i \in DOMAIN rows |->
                      LET cells == RowCells(v, rows[i])
                      IN  join([c \in DOMAIN cells |-> padEnd(cells[c], FixedWidths[c])],
                               Gap)]]
    ELSE LET w == colWidths(v, rows)
             Line(cells) == join([c \in DOMAIN cells |-> padEnd(cells[c], w[c])], Gap)
         IN  [header |-> Line(Headers(v)),
              separator |-> join([c \in DOMAIN w |-> Repeat("-", w[c])], Gap),
              data |-> [i \in DOMAIN rows |-> Line(RowCells(v, rows[i]))]]

(***************************************************************************)
(* Bounds and input sets.                                                  *)
(***************************************************************************)
MaxRows == 2
MaxQueryLen == 4
MaxEnv == 1

SeqsUpTo(S, n) == UNION {[1..k -> S] : k \in 0..n}

Now0 == 100 * MsPerHour

HoursValues == {12, 24, 36}

Row(ts, fleet, sdu, coord, base) ==
    [Timestamp |-> ts, FleetName |-> fleet, SDUCount |-> sdu,
     StarbaseCoordinate |-> coord, Starbase |-> base]

\* instants around the two window bounds: older than both, one millisecond
\* before the 24h bound, on the 24h bound, recent, and later than now
Instants ==
    {Now0 - 40 * MsPerHour, Now0 - 24 * MsPerHour - 1, Now0 - 24 * MsPerHour,
     Now0 - 6 * MsPerHour, Now0 + MsPerHour}

Recent == Now0 - 6 * MsPerHour

FleetA == <<"A">>
FleetB == <<"B">>

\* well-formed rows, rows with exactly one defective cell, and rows that
\* carry a location
RowsAgg ==
    {Row(TsDate(ms), f, NumText(5), "", "") :
        ms \in Instants, f \in {FleetA, <<"A", " ">>, FleetB}}
    \cup {Row(ts, FleetA, NumText(5), "", "") :
        ts \in {TsMissing, TsInvalid, TsAlt(Recent)}}
    \cup {Row(TsDate(Recent), <<>>, NumText(5), "", "")}
    \cup {Row(TsDate(Recent), FleetA, sdu, "", "") :
        sdu \in {EmptyText, JunkText, NumText(-2)}}
    \cup {Row(TsDate(Recent), FleetA, NumText(5), "k1", ""),
          Row(TsDate(Recent), FleetA, NumText(5), " ", "k9")}

\* the .bases file "k1 Hub"
Bases0 == loadBasesMapping(<< <<"k1", "Hub">> >>)

\* the .bases files of the aggregator runs: "k1 Hub", and the lines "k1,"
\* (a coordinate whose name is empty) and "k7" (no name)
BasesAgg ==
    {Bases0, loadBasesMapping(<< <<"k1", "">>, <<"k7">> >>)}

EnvEntries ==
    {[rental |-> TRUE, name |-> n, value |-> v] :
        n \in {<<"A", "_", "A">>, <<"A">>},
        v \in {NumText(10), NumText(0), JunkText, EmptyText}}
    \cup {[rental |-> FALSE, name |-> <<"A">>, value |-> NumText(10)]}
    \cup {[rental |-> TRUE, name |-> <<"L", "E", "M", "O", "N">>,
           value |-> NumText(10)]}

QueryChars == {"A", "a", " "}

\* fleet names that hold the word lemon
LemonQueries ==
    {<<"l", "e", "m", "o", "n">>, <<"L", "e", "m", "o", "n">>,
     <<"L", "E", "M", "O", "N", " ", "A">>}

MaxOrders == 2

Order(type, mint, currency, price, qty, owner) ==
    [orderType |-> type, orderMint |-> mint, currencyMint |-> currency,
     uiPrice |-> price, orderOriginationQty |-> qty, owner |-> owner]

\* 0.005, 0.01, 0.0123456 and 0.02 ATLAS
UiPrices == {50000, 100000, 123456, 200000}

Orders ==
    {Order(type, mint, currency, price, 10, "s1") :
        type \in {"sell", "buy"}, mint \in {"SDU", "OTHER", "bad"},
        currency \in {"ATLAS", "OTHER"}, price \in UiPrices}
    \cup {Order("sell", "SDU", "ATLAS", 200000, 0, "s2")}

MarketAnswers ==
    {[t |-> "orders", orders |-> q] : q \in SeqsUpTo(Orders, MaxOrders)}
    \cup {[t |-> "throws", orders |-> <<>>]}

\* what the fiat-rate feed answers: a rate of 0.004 as a number, text that is
\* no number, an answer without the star-atlas key, or a failed request
FeedAnswers ==
    {[t |-> "usd", usd |-> Num(40)], [t |-> "usd", usd |-> JunkText],
     [t |-> "usd", usd |-> None], [t |-> "throws", usd |-> None]}

Alpha == <<"A", "l", "p", "h", "a">>

\* RENTAL_ALPHA and RENTAL_B
EnvAlpha(v) == [rental |-> TRUE, name |-> <<"A", "L", "P", "H", "A">>, value |-> v]
EnvB == [rental |-> TRUE, name |-> <<"B">>, value |-> NumText(3)]

EnvsCalc ==
    {<<>>}
    \cup {<<EnvAlpha(v)>> : v \in {NumText(10), NumText(0), NumText(-5), JunkText}}
    \cup {<<EnvAlpha(v), EnvB>> : v \in {NumText(10), NumText(0), NumText(-5), JunkText}}

MaxFleets == 2

\* the counts a fleet can have after a stream: the window count is at most
\* the 24h count when h <= 24 and at least the 24h count when h >= 24
Counts(h) ==
    {c \in {<<50, 120>>, <<120, 50>>, <<7, 7>>, <<0, 0>>} :
        /\ h <= 24 => c[1] <= c[2]
        /\ h >= 24 => c[1] >= c[2]}

\* the same name in capitals: the aggregator trims a Fleet Name and keeps
\* its letter case
AlphaUpper == <<"A", "L", "P", "H", "A">>

\* fleet stats as processCSV leaves them
StatsCalc(h) ==
    LET Entry(f, c) == [key |-> f, SDUs |-> c[1], SDUs24h |-> c[2], baseName |-> ""]
        E == {Entry(f, c) : f \in {Alpha, FleetB}, c \in Counts(h)}
             \cup {Entry(AlphaUpper, <<7, 7>>)}
    IN  {q \in SeqsUpTo(E, MaxFleets) :
            \A i, j \in DOMAIN q : i /= j => q[i].key /= q[j].key}

\* the two maps of app.js that hold the same stats
DynOf(stats) == [i \in DOMAIN stats |-> [key |-> stats[i].key, count |-> stats[i].SDUs]]
DayOf(stats) == [i \in DOMAIN stats |-> [key |-> stats[i].key, count |-> stats[i].SDUs24h]]

\* the rows of a whole run: two records of Alpha inside every window, one
\* older than every window, a row without a Fleet Name, and a record of B at
\* a known base
RowsRun ==
    {Row(TsDate(Now0 - 6 * MsPerHour), Alpha, NumText(50), "", ""),
     Row(TsDate(Now0 - 18 * MsPerHour), Alpha, NumText(70), "", ""),
     Row(TsDate(Now0 - 40 * MsPerHour), Alpha, NumText(5), "", ""),
     Row(TsDate(Recent), <<>>, NumText(5), "", ""),
     Row(TsDate(Recent), FleetB, NumText(7), "k1", "")}

\* the market fails, has no order, has an order below the floor, or has a
\* qualifying order at 0.02
MarketRun ==
    {[t |-> "throws", orders |-> <<>>],
     [t |-> "orders", orders |-> <<>>],
     [t |-> "orders", orders |-> <<Order("sell", "SDU", "ATLAS", 50000, 10, "s1")>>],
     [t |-> "orders", orders |-> <<Order("sell", "SDU", "ATLAS", 200000, 10, "s1")>>]}

\* quoted prices: 0.02 and 0.0123 ATLAS
QuotedPrices == {20000, 12300}

\* the external calls: the record stream, the market query, the fiat feed
\* and the delivery channel
Started(c) == [call |-> c, ev |-> "start"]
Ended(c) == [call |-> c, ev |-> "end"]

\* await of a call: it is started, and the run goes on when it has ended
Await(c) == <<Started(c), Ended(c)>>
\* the call ended with an 'error' event
Errored(c) == [call |-> c, ev |-> "error"]

(***************************************************************************)
(* The run.                                                                *)
(***************************************************************************)
IdleLookup == query = <<>> /\ rent = None

IdlePrice == market = [t |-> "throws", orders |-> <<>>] /\ quote = None

IdleReport ==
    /\ usePushover = FALSE
    /\ credentials = FALSE
    /\ feed = [t |-> "throws", usd |-> None]
    /\ atlasUsd = None
    /\ result = None
    /\ message = None
    /\ out = <<>>

IdleStream ==
    /\ now = Now0
    /\ hours = 24
    /\ basesMapping = Bases0
    /\ src = <<>>
    /\ pos = 0
    /\ fleetData = <<>>
    /\ fleetDataDynamic = <<>>
    /\ fleetData24h = <<>>

\* getRentalCost(fleet), called on its own
InitLookup ==
    /\ variant \in Variants
    /\ \E env \in SeqsUpTo(EnvEntries, MaxEnv) :
           rentalPrices = RentalTableOf(variant, env)
    /\ query \in SeqsUpTo(QueryChars, MaxQueryLen) \cup LemonQueries
    /\ rent = None
    /\ IdleStream
    /\ IdlePrice
    /\ IdleReport
    /\ inv = <<>>
    /\ argv = None
    /\ calls = <<>>
    /\ pc = "lookup"

Lookup ==
    /\ pc = "lookup"
    /\ rent' = RentalCostOf(variant, rentalPrices, query)
    /\ pc' = "looked"
    /\ UNCHANGED <<inv, calls, argv, variant, rentalPrices, query, now, hours, basesMapping, src,
                   pos, fleetData, fleetDataDynamic, fleetData24h, market, quote,
                   reportVars>>

NextLookup == Lookup

SpecLookup == InitLookup /\ [][NextLookup]_vars

\* the record source is streamed into the aggregator
InitAgg ==
    /\ variant \in Variants
    /\ rentalPrices = EmptyObject
    /\ IdleLookup
    /\ now = Now0
    /\ hours \in HoursValues
    /\ basesMapping \in (IF variant = "rc1" THEN BasesAgg ELSE {Bases0})
    /\ src \in SeqsUpTo(RowsAgg, MaxRows)
    /\ pos = 0
    /\ fleetData = <<>>
    /\ fleetDataDynamic = <<>>
    /\ fleetData24h = <<>>
    /\ IdlePrice
    /\ IdleReport
    /\ inv = <<>>
    /\ argv = None
    /\ calls = <<Started("stream")>>
    /\ pc = "stream"

\* .on('data', row => ...)
StreamData ==
    /\ pc = "stream"
    /\ pos < Len(src)
    /\ pos' = pos + 1
    /\ LET row == src[pos + 1] IN
       CASE variant = "rc1" ->
              /\ fleetData' = processCSV_data(fleetData, row, Since(now, hours),
                                              Last24h(now), basesMapping)
              /\ UNCHANGED <<fleetDataDynamic, fleetData24h>>
         [] variant \in {"local", "eff"} ->
              /\ fleetData' = processCSV_data_local(fleetData, row,
                                                    Since(now, hours), Last24h(now))
              /\ UNCHANGED <<fleetDataDynamic, fleetData24h>>
         [] variant = "chat" ->
              LET maps == analyze_data([dyn |-> fleetDataDynamic, day |-> fleetData24h],
                                       row, Since(now, hours), Last24h(now))
              IN  /\ fleetDataDynamic' = maps.dyn
                  /\ fleetData24h' = maps.day
                  /\ UNCHANGED fleetData
    /\ UNCHANGED <<inv, calls, argv, variant, rentalPrices, query, rent, now, hours, basesMapping,
                   src, market, quote, reportVars, pc>>

\* .on('end', ...)
StreamEnd ==
    /\ pc = "stream"
    /\ pos = Len(src)
    /\ pc' = "price"
    /\ calls' = Append(calls, Ended("stream"))
    /\ UNCHANGED <<inv, argv, variant, rentalPrices, query, rent, now, hours, basesMapping,
                   src, pos, fleetData, fleetDataDynamic, fleetData24h, market,
                   quote, reportVars>>

NextAgg == StreamData \/ StreamEnd

SpecAgg == InitAgg /\ [][NextAgg]_vars

\* getLowestSDUPrice(), called on its own (node sdu_price.js)
InitPrice ==
    /\ variant = "rc1"
    /\ rentalPrices = EmptyObject
    /\ IdleLookup
    /\ IdleStream
    /\ market \in MarketAnswers
    /\ quote = None
    /\ IdleReport
    /\ inv = <<>>
    /\ argv = None
    /\ calls = <<>>
    /\ pc = "price"

\* the market query, were it issued without awaiting the record stream
PriceQuery_nowait ==
    /\ pc \in {"stream", "price"}
    /\ quote' = getLowestSDUPrice(market)
    /\ pc' = "quoted"
    /\ calls' = calls \o Await("market")
    /\ UNCHANGED <<inv, argv, variant, rentalPrices, query, rent, now, hours, basesMapping,
                   src, pos, fleetData, fleetDataDynamic, fleetData24h, market,
                   reportVars>>

\* await getLowestSDUPrice()
PriceQuery ==
    /\ pc = "price"
    /\ quote' = getLowestSDUPrice(market)
    /\ pc' = "quoted"
    /\ calls' = calls \o Await("market")
    /\ UNCHANGED <<inv, argv, variant, rentalPrices, query, rent, now, hours, basesMapping,
                   src, pos, fleetData, fleetDataDynamic, fleetData24h, market,
                   reportVars>>

NextPrice == PriceQuery

SpecPrice == InitPrice /\ [][NextPrice]_vars

\* the check, were a null price let through
PriceMissing_never(q) == FALSE

\* if (!price) ...
PriceMissing(q) == ~Truthy(q.price)

NoValidPrice == "No valid SDU price found."

StdErr(text) == [channel |-> "stderr", text |-> text, body |-> None]
StdOut(text, body) == [channel |-> "stdout", text |-> text, body |-> body]

\* what a run that failed with err leaves on the channels: the catch of
\* main, or the catch of the command handler
Failed(v, err) ==
    IF v = "chat"
    THEN <<StdErr(err),
           [channel |-> "chat", body |-> None,
            text |-> "Sorry, something went wrong while processing your request."]>>
    ELSE <<StdErr(err)>>

\* the check of the quote that follows await getLowestSDUPrice()
PriceCheck ==
    /\ pc = "quoted"
    /\ IF PriceMissing(quote)
       THEN /\ out' = out \o Failed(variant, NoValidPrice)
            /\ pc' = "done"
       ELSE /\ out' = out
            /\ pc' = "fiat"
    /\ calls' = IF PriceMissing(quote) /\ variant = "chat"
                THEN calls \o Await("deliver")
                ELSE calls
    /\ UNCHANGED <<inv, argv, variant, rentalPrices, query, rent, now, hours, basesMapping,
                   src, pos, fleetData, fleetDataDynamic, fleetData24h, market,
                   quote, usePushover, credentials, feed, atlasUsd, result,
                   message>>

\* await getAtlasUsdPrice()
FiatQuery ==
    /\ pc = "fiat"
    /\ atlasUsd' = IF variant = "chat" THEN getAtlasUsdPrice_app(feed)
                   ELSE getAtlasUsdPrice(feed)
    /\ out' = IF \/ feed.t = "throws"
                 \/ variant = "chat" /\ ~Truthy(feed.usd)
              THEN Append(out, StdErr("Error fetching ATLAS USD price:"))
              ELSE out
    /\ pc' = "analyze"
    /\ calls' = calls \o Await("fiat")
    /\ UNCHANGED <<inv, argv, variant, rentalPrices, query, rent, now, hours, basesMapping,
                   src, pos, fleetData, fleetDataDynamic, fleetData24h, market,
                   quote, usePushover, credentials, feed, result, message>>

\* the totals, the net figures and the final message: the code from the
\* fiat rate to the delivery, which has no await
Analyze ==
    /\ pc = "analyze"
    /\ LET price == CurrentPrice(quote.price)
           r == IF variant = "chat"
                THEN analyzeAndFormatMessage(fleetDataDynamic, fleetData24h,
                                             rentalPrices, price, hours)
                ELSE analyzeAndFormatLocal(fleetData, rentalPrices, price, hours)
       IN  /\ result' = r
           /\ message' = FinalMessage(variant, usePushover, fleetData,
                                      fleetDataDynamic, fleetData24h, r, hours,
                                      price, atlasUsd, rentalPrices)
    /\ pc' = "deliver"
    /\ UNCHANGED <<inv, calls, argv, variant, rentalPrices, query, rent, now, hours, basesMapping,
                   src, pos, fleetData, fleetDataDynamic, fleetData24h, market,
                   quote, usePushover, credentials, feed, atlasUsd, out>>

\* the delivery, were a posted message printed as well
Deliver_both ==
    /\ pc = "deliver"
    /\ \E ok \in BOOLEAN :
          /\ out' = out \o
              (CASE variant = "chat" ->
                      IF ok THEN <<[channel |-> "chat", text |-> "report",
                                    body |-> message]>>
                      ELSE Failed(variant, "respond failed")
                 [] variant /= "chat" /\ ~usePushover ->
                      <<StdOut("report", message)>>
                 [] variant /= "chat" /\ usePushover /\ ~credentials ->
                      <<StdErr("Pushover credentials missing."),
                        StdOut("report", message)>>
                 [] OTHER ->
                      IF ok THEN <<[channel |-> "pushover", text |-> "report",
                                    body |-> message],
                                   StdOut("report", message)>>
                      ELSE Failed(variant, "post failed"))
          /\ calls' = calls \o
              (CASE variant = "chat" ->
                      IF ok THEN Await("deliver")
                      ELSE Await("deliver") \o Await("deliver")
                 [] variant /= "chat" /\ usePushover /\ credentials ->
                      Await("deliver")
                 [] OTHER -> <<>>)
    /\ pc' = "done"
    /\ UNCHANGED <<inv, argv, variant, rentalPrices, query, rent, now, hours, basesMapping,
                   src, pos, fleetData, fleetDataDynamic, fleetData24h, market,
                   quote, usePushover, credentials, feed, atlasUsd, result,
                   message>>

\* console.log, the post to the push service, or respond
Deliver ==
    /\ pc = "deliver"
    /\ \E ok \in BOOLEAN :
          /\ out' = out \o
              (CASE variant = "chat" ->
                      IF ok THEN <<[channel |-> "chat", text |-> "report",
                                    body |-> message]>>
                      ELSE Failed(variant, "respond failed")
                 [] variant /= "chat" /\ ~usePushover ->
                      <<StdOut("report", message)>>
                 [] variant /= "chat" /\ usePushover /\ ~credentials ->
                      <<StdErr("Pushover credentials missing."),
                        StdOut("report", message)>>
                 [] OTHER ->
                      IF ok THEN <<[channel |-> "pushover", text |-> "report",
                                    body |-> message],
                                   StdOut("Message sent to Pushover.", None)>>
                      ELSE Failed(variant, "post failed"))
          /\ calls' = calls \o
              (CASE variant = "chat" ->
                      IF ok THEN Await("deliver")
                      ELSE Await("deliver") \o Await("deliver")
                 [] variant /= "chat" /\ usePushover /\ credentials ->
                      Await("deliver")
                 [] OTHER -> <<>>)
    /\ pc' = "done"
    /\ UNCHANGED <<inv, argv, variant, rentalPrices, query, rent, now, hours, basesMapping,
                   src, pos, fleetData, fleetDataDynamic, fleetData24h, market,
                   quote, usePushover, credentials, feed, atlasUsd, result,
                   message>>

\* the calculator and the renderers on fleet stats, a table, a price and a
\* fiat answer drawn from the input sets
InitCalc ==
    /\ variant \in Variants
    /\ \E env \in EnvsCalc : rentalPrices = RentalTableOf(variant, env)
    /\ IdleLookup
    /\ now = Now0
    /\ hours \in HoursValues
    /\ basesMapping = Bases0
    /\ src = <<>>
    /\ pos = 0
    /\ \E stats \in StatsCalc(hours) :
          IF variant = "chat"
          THEN /\ fleetData = <<>>
               /\ fleetDataDynamic = DynOf(stats)
               /\ fleetData24h = DayOf(stats)
          ELSE /\ fleetData = stats
               /\ fleetDataDynamic = <<>>
               /\ fleetData24h = <<>>
    /\ market = [t |-> "throws", orders |-> <<>>]
    /\ \E p \in QuotedPrices :
          quote = [price |-> NumText(p), quantity |-> Num(10), seller |-> "s1"]
    /\ usePushover \in (IF variant \in {"rc1", "local"} THEN BOOLEAN ELSE {FALSE})
    /\ credentials = TRUE
    /\ feed \in FeedAnswers
    /\ atlasUsd = None
    /\ result = None
    /\ message = None
    /\ out = <<>>
    /\ inv = <<>>
    /\ argv = None
    /\ calls = Await("stream") \o Await("market")
    /\ pc = "fiat"

NextCalc == FiatQuery \/ Analyze \/ Deliver

SpecCalc == InitCalc /\ [][NextCalc]_vars

\* a whole report run: node <script> [pushover] [hours], or /scanners [hours]
Init ==
    /\ variant \in Variants
    /\ \E env \in {<<>>, <<EnvAlpha(NumText(10))>>} :
          rentalPrices = RentalTableOf(variant, env)
    /\ IdleLookup
    /\ now = Now0
    /\ hours \in HoursValues
    /\ basesMapping = Bases0
    /\ src \in SeqsUpTo(RowsRun, MaxRows)
    /\ pos = 0
    /\ fleetData = <<>>
    /\ fleetDataDynamic = <<>>
    /\ fleetData24h = <<>>
    /\ market \in MarketRun
    /\ quote = None
    /\ usePushover \in (IF variant = "chat" THEN {FALSE} ELSE BOOLEAN)
    /\ credentials \in (IF usePushover THEN BOOLEAN ELSE {FALSE})
    /\ feed \in {[t |-> "usd", usd |-> Num(40)], [t |-> "throws", usd |-> None]}
    /\ atlasUsd = None
    /\ result = None
    /\ message = None
    /\ out = <<>>
    /\ inv = <<>>
    /\ argv = None
    /\ calls = <<Started("stream")>>
    /\ pc = "stream"

StreamFailed == "stream error"
Uncaught == "Unhandled 'error' event"

\* the record stream emits 'error'.  The handler of .on('error', reject) is
\* attached to the stream that .pipe(csv()) returns, the parser: an error of
\* the parser rejects the promise and reaches the catch of the caller; an
\* error of the file stream (createReadStream) has no listener, is thrown
\* as an uncaught exception and ends the process
StreamError ==
    /\ pc = "stream"
    /\ \E emitter \in {"parser", "file"} :
          IF emitter = "parser"
          THEN /\ out' = out \o Failed(variant, StreamFailed)
               /\ calls' = IF variant = "chat"
                           THEN Append(calls, Errored("stream")) \o Await("deliver")
                           ELSE Append(calls, Errored("stream"))
               /\ pc' = "rejected"
          ELSE /\ out' = Append(out, StdErr(Uncaught))
               /\ calls' = Append(calls, Errored("stream"))
               /\ pc' = "crashed"
    /\ UNCHANGED <<inv, argv, variant, rentalPrices, query, rent, now, hours, basesMapping,
                   src, pos, fleetData, fleetDataDynamic, fleetData24h, market,
                   quote, usePushover, credentials, feed, atlasUsd, result,
                   message>>

Next ==
    \/ StreamData
    \/ StreamEnd
    \/ StreamError
    \/ PriceQuery
    \/ PriceCheck
    \/ FiatQuery
    \/ Analyze
    \/ Deliver

Spec == Init /\ [][Next]_vars

(***************************************************************************)
(* app.js: invocations of the /scanners command that overlap.  Each call   *)
(* of analyzeAndFormatMessage opens its own stream on the record source    *)
(* and declares its own pair of maps; the rental table is the one          *)
(* module-level object, which no invocation writes.  The steps of one      *)
(* invocation are the blocks between its awaits and its stream events, and *)
(* the blocks of the invocations interleave in every order.                *)
(***************************************************************************)
Invocations == {1, 2}

HoursChat == {12, 24}

RowsChat ==
    {Row(TsDate(Now0 - 6 * MsPerHour), Alpha, NumText(50), "", ""),
     Row(TsDate(Now0 - 18 * MsPerHour), Alpha, NumText(70), "", ""),
     Row(TsDate(Recent), FleetB, NumText(7), "", "")}

\* the market has no order, or a qualifying order at 0.02
MarketChat ==
    {[t |-> "orders", orders |-> <<>>],
     [t |-> "orders", orders |-> <<Order("sell", "SDU", "ATLAS", 200000, 10, "s1")>>]}

EnvsChat == {<<>>, <<EnvAlpha(NumText(10))>>}

\* let fleetDataDynamic = {}; let fleetData24h = {}; were they declared
\* at module level, every invocation would write the maps of the first
Scope_module(i) == 1

\* let fleetDataDynamic = {}; let fleetData24h = {}; inside
\* analyzeAndFormatMessage: the maps an invocation writes are its own
Scope(i) == i

Resolved(body) == [t |-> "resolved", body |-> body]
Rejected(err) == [t |-> "rejected", body |-> err]

NewInvocation(h, m) ==
    [hours |-> h, pos |-> 0, dyn |-> <<>>, day |-> <<>>, market |-> m,
     quote |-> None, settled |-> None, pc |-> "stream"]

InitChat ==
    /\ variant = "chat"
    /\ \E env \in EnvsChat : rentalPrices = RentalTableOf(variant, env)
    /\ IdleLookup
    /\ now = Now0
    /\ hours = 24
    /\ basesMapping = Bases0
    /\ src \in SeqsUpTo(RowsChat, MaxRows)
    /\ pos = 0
    /\ fleetData = <<>>
    /\ fleetDataDynamic = <<>>
    /\ fleetData24h = <<>>
    /\ IdlePrice
    /\ usePushover = FALSE
    /\ credentials = FALSE
    /\ feed \in {[t |-> "usd", usd |-> Num(40)], [t |-> "throws", usd |-> None]}
    /\ atlasUsd = None
    /\ result = None
    /\ message = None
    /\ out = <<>>
    /\ calls = <<>>
    /\ argv = None
    /\ inv \in [Invocations -> {NewInvocation(h, m) : h \in HoursChat, m \in MarketChat}]
    /\ pc = "chat"

\* .on('data', row => ...) of invocation i
ChatData(i) ==
    /\ inv[i].pc = "stream"
    /\ inv[i].pos < Len(src)
    /\ LET mine == inv[Scope(i)]
           maps == analyze_data([dyn |-> mine.dyn, day |-> mine.day],
                                src[inv[i].pos + 1], Since(now, inv[i].hours),
                                Last24h(now))
       IN  inv' = [inv EXCEPT ![i].pos = @ + 1,
                              ![Scope(i)].dyn = maps.dyn,
                              ![Scope(i)].day = maps.day]
    /\ UNCHANGED <<argv, variant, rentalPrices, query, rent, now, hours, basesMapping,
                   src, pos, fleetData, fleetDataDynamic, fleetData24h, market,
                   quote, reportVars, calls, pc>>

\* .on('end', ...) of invocation i, up to the return of
\* await getLowestSDUPrice()
ChatEnd(i) ==
    /\ inv[i].pc = "stream"
    /\ inv[i].pos = Len(src)
    /\ inv' = [inv EXCEPT ![i].quote = getLowestSDUPrice(inv[i].market),
                          ![i].pc = "quoted"]
    /\ UNCHANGED <<argv, variant, rentalPrices, query, rent, now, hours, basesMapping,
                   src, pos, fleetData, fleetDataDynamic, fleetData24h, market,
                   quote, reportVars, calls, pc>>

\* if (!price) return reject(...), else up to await getAtlasUsdPrice()
ChatPriceCheck(i) ==
    /\ inv[i].pc = "quoted"
    /\ inv' = IF PriceMissing(inv[i].quote)
              THEN [inv EXCEPT ![i].settled = Rejected(NoValidPrice),
                               ![i].pc = "done"]
              ELSE [inv EXCEPT ![i].pc = "fiat"]
    /\ UNCHANGED <<argv, variant, rentalPrices, query, rent, now, hours, basesMapping,
                   src, pos, fleetData, fleetDataDynamic, fleetData24h, market,
                   quote, reportVars, calls, pc>>

\* from the return of await getAtlasUsdPrice(): the totals, the message and
\* resolve(finalMessage)
ChatReport(i) ==
    /\ inv[i].pc = "fiat"
    /\ LET mine == inv[Scope(i)]
           price == CurrentPrice(inv[i].quote.price)
           usd == getAtlasUsdPrice_app(feed)
           r == analyzeAndFormatMessage(mine.dyn, mine.day, rentalPrices, price,
                                        inv[i].hours)
       IN  inv' = [inv EXCEPT
                     ![i].settled =
                         Resolved(FinalMessage("chat", FALSE, <<>>, mine.dyn,
                                               mine.day, r, inv[i].hours,
                                               price, usd, rentalPrices)),
                     ![i].pc = "done"]
    /\ UNCHANGED <<argv, variant, rentalPrices, query, rent, now, hours, basesMapping,
                   src, pos, fleetData, fleetDataDynamic, fleetData24h, market,
                   quote, reportVars, calls, pc>>

NextChat ==
    \E i \in Invocations :
        ChatData(i) \/ ChatEnd(i) \/ ChatPriceCheck(i) \/ ChatReport(i)

SpecChat == InitChat /\ [][NextChat]_vars

(***************************************************************************)
(* Claims about the record aggregator.                                     *)
(***************************************************************************)
\* the rows folded so far
Folded == SubSeq(src, 1, pos)

\* the validation step of each script, as a predicate on the row
PassesValidation(v, row) ==
    IF v = "chat"
    THEN ~isNaN(Timestamp_app(row))
    ELSE /\ row.Timestamp.t /= "missing"
         /\ row.FleetName /= <<>>
         /\ row.SDUCount /= EmptyText
         /\ ~isNaN(NewDate(row.Timestamp))

\* the fleet a row is counted for
RowFleet(v, row) ==
    IF v = "chat" /\ row.FleetName = <<>> THEN UnknownFleet ELSE trim(row.FleetName)

\* the SDU Count of a row, 0 when it is not a numeral
RowCount(row) == IF row.SDUCount.t = "numtext" THEN row.SDUCount.n ELSE 0

RECURSIVE SumCounts(_, _, _, _, _)
SumCounts(rows, v, f, lo, hi) ==
    IF rows = <<>> THEN 0
    ELSE LET r == Head(rows)
             mine == /\ PassesValidation(v, r)
                     /\ RowFleet(v, r) = f
                     /\ lo <= r.Timestamp.ms
                     /\ r.Timestamp.ms <= hi
         IN  (IF mine THEN RowCount(r) ELSE 0) + SumCounts(Tail(rows), v, f, lo, hi)

\* a fleet's window count and 24h count as the run holds them
WindowCount(f) ==
    IF variant = "chat" THEN CountOfKey(fleetDataDynamic, f)
    ELSE IF HasKey(fleetData, f) THEN fleetData[IndexOfKey(fleetData, f)].SDUs ELSE 0

Count24h(f) ==
    IF variant = "chat" THEN CountOfKey(fleetData24h, f)
    ELSE IF HasKey(fleetData, f) THEN fleetData[IndexOfKey(fleetData, f)].SDUs24h ELSE 0

\* every fleet name the run can hold a count for
AllFleets ==
    {RowFleet(variant, src[i]) : i \in DOMAIN src}
    \cup Keys(fleetData) \cup Keys(fleetDataDynamic) \cup Keys(fleetData24h)

\* the latest instant in the record source (or now, if that is later)
Latest ==
    LET S == {src[i].Timestamp.ms : i \in DOMAIN src} \cup {now}
    IN  CHOOSE m \in S : \A x \in S : x <= m

\* C1 as stated: each fleet's 24h count is the sum of SDU Count over that
\* fleet's valid records with now-24h <= timestamp <= now, and its window
\* count the sum over those with now-h hours <= timestamp <= now.
C1_CountsWithinClosedInterval ==
    \A f \in AllFleets :
        /\ Count24h(f) = SumCounts(Folded, variant, f, Last24h(now), now)
        /\ WindowCount(f) = SumCounts(Folded, variant, f, Since(now, hours), now)

\* C1 amended: the sums run over the valid records with timestamp >= now-24h
\* (>= now-h hours for the window count), with no upper bound: a record later
\* than now is counted in both.
C1_CountsFromLowerBound ==
    \A f \in AllFleets :
        /\ Count24h(f) = SumCounts(Folded, variant, f, Last24h(now), Latest)
        /\ WindowCount(f) = SumCounts(Folded, variant, f, Since(now, hours), Latest)

\* the stream has ended after two records of one fleet: one on the 24h bound
\* and one later than now, both counted
C1_Witness ==
    /\ pc = "price"
    /\ Len(src) = 2
    /\ \E i, j \in DOMAIN src :
          /\ PassesValidation(variant, src[i]) /\ PassesValidation(variant, src[j])
          /\ RowFleet(variant, src[i]) = RowFleet(variant, src[j])
          /\ src[i].Timestamp.ms = Last24h(now)
          /\ src[j].Timestamp.ms > now
          /\ Count24h(RowFleet(variant, src[i])) = 10

\* a row lacks a Fleet Name or an SDU Count, or no Date call understands
\* its Timestamp
Defective(row) ==
    \/ row.FleetName = <<>>
    \/ row.SDUCount = EmptyText
    \/ row.Timestamp.t = "invalid"

\* C2 as stated: in every script, folding a row with a missing Fleet Name, a
\* missing SDU Count or an unparseable Timestamp changes no fleet's window
\* count or 24h count, and the stream goes on.
C2_DefectiveRowChangesNothing ==
    [][(pc = "stream" /\ pos < Len(src) /\ Defective(src[pos + 1]))
         => /\ pc' = "stream"
            /\ \A f \in AllFleets :
                  /\ WindowCount(f)' = WindowCount(f)
                  /\ Count24h(f)' = Count24h(f)]_vars

(***************************************************************************)
(* Claims about the rental lookup.                                         *)
(***************************************************************************)
\* runs of spaces replaced by one space
RECURSIVE CollapseSpaces(_)
CollapseSpaces(s) ==
    IF Len(s) < 2 THEN s
    ELSE IF IsSpace(s[1]) /\ IsSpace(s[2]) THEN CollapseSpaces(Tail(s))
    ELSE <<s[1]>> \o CollapseSpaces(Tail(s))

\* q differs from the fleet name k only in letter case, in leading or
\* trailing whitespace, or in the number of spaces between words
SameFleetName(q, k) == CollapseSpaces(trim(toLowerCase(q))) = k

\* C6 as stated: every query that differs from a configured fleet name only
\* in case, outer whitespace or the number of spaces between words gets the
\* rate configured for that name.
C6_LookupIgnoresCaseAndWhitespace ==
    pc = "looked" =>
        \A k \in DOMAIN rentalPrices :
            SameFleetName(query, k) =>
                rent = RentalCostOf(variant, rentalPrices, k)

(***************************************************************************)
(* Claims about the price resolver.                                        *)
(***************************************************************************)
Qualifies(o) ==
    /\ o.orderType = "sell"
    /\ o.orderMint = "SDU"
    /\ o.currencyMint = "ATLAS"
    /\ o.uiPrice >= MinUiPrice

QualifyingPrices ==
    {market.orders[i].uiPrice : i \in {j \in DOMAIN market.orders :
                                          Qualifies(market.orders[j])}}

MinOf(S) == CHOOSE m \in S : \A x \in S : m <= x

\* C10 as stated: a non-null quoted price is the minimum uiPrice over exactly
\* the sell-side SDU/ATLAS orders with uiPrice >= 0.01, hence >= 0.01.
C10_PriceIsMinimumUiPrice ==
    (pc = "quoted" /\ quote.price /= None) =>
        /\ QualifyingPrices /= {}
        /\ quote.price.n * (UiScale \div QuoteScale) = MinOf(QualifyingPrices)
        /\ quote.price.n * (UiScale \div QuoteScale) >= MinUiPrice

\* C10 amended: a non-null quoted price is the minimum uiPrice over exactly
\* the qualifying orders, rounded to six decimals, and is >= 0.01.
C10_PriceIsRoundedMinimum ==
    (pc = "quoted" /\ quote.price /= None) =>
        /\ QualifyingPrices /= {}
        /\ quote.price.n = RoundDiv(MinOf(QualifyingPrices), UiScale \div QuoteScale)
        /\ quote.price.n * (UiScale \div QuoteScale) >= MinUiPrice

\* a quote was made while a cheaper order that fails a filter was open
C10_Witness ==
    /\ pc = "quoted"
    /\ quote.price /= None
    /\ \E i \in DOMAIN market.orders :
          /\ ~Qualifies(market.orders[i])
          /\ market.orders[i].uiPrice < MinOf(QualifyingPrices)

(***************************************************************************)
(* Claims about the profit calculator and the renderers.                   *)
(***************************************************************************)
\* the calculator and the renderer have run, nothing is delivered yet
Analyzed == pc = "deliver"

SummaryRows == message.summary.rows

FiatShown == SummaryRows[3].Usd24h.t = "num"

Within(a, b, d) == a - b <= d /\ b - a <= d

C4_RoiNotApplicableUnlessRatePositive ==
    Analyzed =>
        \A i \in DOMAIN message.fleet.rows :
            LET row == message.fleet.rows[i]
                rate == parseFloat(row.Rent)
            IN  IF isNaN(rate) \/ rate.n <= 0
                THEN row.ROI = NA
                ELSE row.ROI = Pct(RoundDiv(row.SDUs24h * CurrentPrice(quote.price) * 100,
                                            rate.n * PriceScale))

\* C7: the rent charged to the window totals is r * h / 24 summed over the
\* rented fleets, and with h = 24 the window rent totals equal the 24h rent
\* totals.
C7_ProrationIsLinear ==
    Analyzed =>
        /\ result.totals.totalRentDynamic * 24 = result.totals.totalRent24h * hours
        /\ result.totals.rentedRentDynamic * 24 = result.totals.rentedRent24h * hours
        /\ hours = 24 =>
              /\ result.totals.rentedRentDynamic = result.totals.rentedRent24h
              /\ result.totals.totalRentDynamic = result.totals.totalRent24h

\* rent was charged for a window that is not 24 hours
C7_Witness ==
    /\ Analyzed
    /\ hours = 36
    /\ result.totals.totalRent24h = Rent24h(13)
    /\ result.totals.totalRentDynamic > result.totals.totalRent24h

\* rates {alpha: 10}, h = 12, one fleet 'Alpha' with window count 50 and 24h
\* count 120, price 0.02
Scenario ==
    /\ DOMAIN rentalPrices = {toLowerCase(Alpha)}
    /\ parseFloat(rentalPrices[toLowerCase(Alpha)]) = Num(10)
    /\ hours = 12
    /\ IF variant = "chat"
       THEN /\ fleetDataDynamic = <<[key |-> Alpha, count |-> 50]>>
            /\ fleetData24h = <<[key |-> Alpha, count |-> 120]>>
       ELSE /\ Len(fleetData) = 1
            /\ fleetData[1].key = Alpha
            /\ fleetData[1].SDUs = 50
            /\ fleetData[1].SDUs24h = 120
    /\ quote.price = NumText(20000)

\* C8: in the scenario the fleet is Rented, window value 1.00, 24h value
\* 2.40, prorated window rent 5.00, net window -4.00 in the Rented and the
\* Overall row, ROI 24%.
C8_ScenarioAlpha ==
    (Scenario /\ Analyzed) =>
        /\ result.totals.rentedValDynamic = result.totals.totalValDynamic
        /\ result.totals.ownedValDynamic = 0
        /\ result.totals.ownedVal24h = 0
        /\ Len(message.fleet.rows) = 1
        /\ message.fleet.rows[1].Val = 100
        /\ message.fleet.rows[1].Val24h = 240
        /\ AmountFixed2(result.totals.rentedRentDynamic) = 500
        /\ AmountFixed2(result.totals.totalRentDynamic) = 500
        /\ SummaryRows[1].Category = "Rented"
        /\ SummaryRows[1].AtlasDynamic = -400
        /\ SummaryRows[3].Category = "Overall"
        /\ SummaryRows[3].AtlasDynamic = -400
        /\ message.fleet.rows[1].ROI = Pct(24)

C8_Witness == Scenario /\ Analyzed

(***************************************************************************)
(* Claims about a whole run.                                               *)
(***************************************************************************)
\* the run is past the check of the quote
PastPriceCheck == pc \in {"fiat", "analyze", "deliver", "done"}

\* C5: when the quoted price is null the run fails with 'No valid SDU price
\* found.': no total or net figure is computed, no message is built, and
\* nothing that carries report text is printed or sent.
C5_NullPriceFailsTheRun ==
    (PastPriceCheck /\ quote.price = None) =>
        /\ pc = "done"
        /\ result = None
        /\ message = None
        /\ \E i \in DOMAIN out : out[i] = StdErr(NoValidPrice)
        /\ \A i \in DOMAIN out : out[i].body = None

\* records were folded, the market had no qualifying order, the run is over
C5_Witness ==
    /\ pc = "done"
    /\ quote = NullQuote
    /\ market.t = "orders"
    /\ Len(src) > 0
    /\ Len(fleetData) + Len(fleetDataDynamic) > 0

\* the record source holds no valid record inside the window
NoRecordInWindow ==
    \A i \in DOMAIN src :
        ~(/\ PassesValidation(variant, src[i])
          /\ Since(now, hours) <= src[i].Timestamp.ms
          /\ src[i].Timestamp.ms <= now)

\* the fleet section comes from formatFleetTable of a CLI script
Wide == variant = "eff" \/ (variant \in {"rc1", "local"} /\ ~usePushover)

\* C9 as stated: when the source holds no valid record inside the window of
\* N hours, the wide renderer's fleet section is exactly the 'No data for
\* the last N hours' notice.
C9_NoRecordInWindowGivesNotice ==
    (Analyzed /\ Wide /\ NoRecordInWindow) => message.fleet = Notice(hours)


(***************************************************************************)
(* Claims about the failures of the two resolvers.                         *)
(***************************************************************************)
\* the filter chain meets a sell order whose mint text is no public key
FilterThrows ==
    \E i \in DOMAIN market.orders :
        LET o == market.orders[i]
        IN  /\ o.orderType = "sell"
            /\ \/ o.orderMint = "bad"
               \/ o.orderMint = "SDU" /\ o.currencyMint = "bad"

\* how often the call c was started
TimesStarted(c) == Cardinality({i \in DOMAIN calls : calls[i] = Started(c)})

\* C11: getLowestSDUPrice always returns a quote to its caller: the all-null
\* quote when the market query or a filter step throws or when no order
\* passes the filters; it queries the market exactly once.
C11_ResolverNeverRaises ==
    pc = "quoted" =>
        /\ DOMAIN quote = {"price", "quantity", "seller"}
        /\ (market.t = "throws" \/ FilterThrows \/ QualifyingPrices = {})
              => quote = NullQuote
        /\ TimesStarted("market") = 1

\* the market query failed and the resolver has returned
C11_Witness ==
    /\ pc = "quoted"
    /\ market.t = "throws"
    /\ quote = NullQuote
    /\ calls = Await("market")


(***************************************************************************)
(* C12: the fiat-rate resolver                                             *)
(***************************************************************************)
\* the feed's answer carries a positive number under star-atlas.usd
WellFormedPositive == feed.t = "usd" /\ feed.usd.t = "num" /\ feed.usd.n > 0

\* C12: getAtlasUsdPrice always returns a positive number: the feed's
\* star-atlas.usd value when that is a positive number, and the fallback
\* 0.0013 in every other case.
C12_FiatRateIsPositiveNumber ==
    pc \in {"analyze", "deliver"} =>
        /\ atlasUsd.t = "num"
        /\ atlasUsd.n > 0
        /\ atlasUsd = IF WellFormedPositive THEN feed.usd ELSE Num(FallbackUsd)


(***************************************************************************)
(* C15: the exclusion of the lemon fleets                                  *)
(***************************************************************************)
\* C15: in every variant a fleet whose name contains "lemon", in any case,
\* is looked up as N/A whatever the rental table holds.
C15_LemonIsNeverRented ==
    (pc = "looked" /\ includes(toLowerCase(query), Lemon)) => rent = NA


(***************************************************************************)
(* C16: the condensed list and the calculator's classes                    *)
(***************************************************************************)
\* the fleets analyzeAndFormatLocal adds to the rented totals
RentedFleets ==
    {fleetData[i].key : i \in {j \in DOMAIN fleetData :
        LET rentNum == parseFloat(getRentalCost(rentalPrices, fleetData[j].key))
        IN  ~isNaN(rentNum) /\ rentNum.n > 0}}

\* the fleets that have a bullet block in the condensed list
BlockFleets == {message.fleet.rows[i].Fleet : i \in DOMAIN message.fleet.rows}

\* C16: the condensed list has a bullet block for a fleet if and only if the
\* calculator classifies the fleet as Rented (its rate is a number > 0).
C16_BlockIffRented ==
    (Analyzed /\ message.fleet.t = "list") => BlockFleets = RentedFleets


(***************************************************************************)
(* C17: the trailing current-price line                                    *)
(***************************************************************************)
\* C17: in every pipeline the final message, wide or condensed, ends with
\* the current-price line: the resolved price in ATLAS and in fiat, after
\* the profit summary.
C17_MessageEndsWithPriceLine ==
    Analyzed =>
        /\ message.priceLine /= None
        /\ message.priceLine = PriceLine(CurrentPrice(quote.price), atlasUsd)


(***************************************************************************)
(* C18: errors of the record stream                                        *)
(***************************************************************************)
StreamErrored == \E i \in DOMAIN calls : calls[i] = Errored("stream")

\* a report was delivered on some channel
Reported == \E i \in DOMAIN out : out[i].body /= None

\* C18: when the record stream emits an error, the run fails with that error
\* propagated to the caller, no report is delivered, and the market and the
\* fiat queries are never issued.
C18_StreamErrorFailsTheRun ==
    StreamErrored =>
        /\ pc = "rejected"
        /\ SubSeq(out, Len(out) - Len(Failed(variant, StreamFailed)) + 1, Len(out))
              = Failed(variant, StreamFailed)
        /\ ~Reported
        /\ TimesStarted("market") = 0
        /\ TimesStarted("fiat") = 0


(***************************************************************************)
(* C20: the order of the external calls of a run                           *)
(***************************************************************************)
CallRank(c) ==
    CASE c = "stream" -> 1
      [] c = "market" -> 2
      [] c = "fiat" -> 3
      [] c = "deliver" -> 4

\* the call started at position i of the log has completed before position k
Completed(i, k) ==
    \E j \in (i + 1)..(k - 1) :
        calls[j].call = calls[i].call /\ calls[j].ev \in {"end", "error"}

\* C20: within one run the external calls are strictly sequential, in the
\* order record stream, market query, fiat query, delivery call: a call is
\* started only when every call started before it has completed, and no
\* call is started after a later one.
C20_CallsAreSequential ==
    \A i, k \in DOMAIN calls :
        (i < k /\ calls[i].ev = "start" /\ calls[k].ev = "start") =>
            /\ Completed(i, k)
            /\ CallRank(calls[i].call) <= CallRank(calls[k].call)
            /\ calls[k].call /= "deliver" =>
                  CallRank(calls[i].call) < CallRank(calls[k].call)

\* a run that made all four calls
C20_Witness ==
    /\ pc = "done"
    /\ calls = Await("stream") \o Await("market") \o Await("fiat")
                  \o Await("deliver")
    /\ \E i \in DOMAIN out : out[i].body = message


(***************************************************************************)
(* C19: overlapping invocations of the chat command                        *)
(***************************************************************************)
\* the maps after the 'data' handler has seen every row, for a window of h
\* hours
RECURSIVE FoldRows(_, _, _)
FoldRows(rows, maps, h) ==
    IF rows = <<>> THEN maps
    ELSE FoldRows(Tail(rows),
                  analyze_data(maps, Head(rows), Since(now, h), Last24h(now)), h)

\* what analyzeAndFormatMessage settles with when the invocation of h hours
\* and market answer m runs alone
Alone(h, m) ==
    LET maps == FoldRows(src, [dyn |-> <<>>, day |-> <<>>], h)
        q == getLowestSDUPrice(m)
        price == CurrentPrice(q.price)
        r == analyzeAndFormatMessage(maps.dyn, maps.day, rentalPrices, price, h)
    IN  IF PriceMissing(q) THEN Rejected(NoValidPrice)
        ELSE Resolved(FinalMessage("chat", FALSE, <<>>, maps.dyn, maps.day, r, h,
                                   price, getAtlasUsdPrice_app(feed), rentalPrices))

\* C19: two overlapping invocations of the chat command each produce the
\* message they would produce running alone: no record read by one is
\* counted in the other's figures.
C19_OverlappingInvocationsAreIsolated ==
    pc = "chat" =>
        \A i \in Invocations :
            inv[i].pc = "done" => inv[i].settled = Alone(inv[i].hours, inv[i].market)

\* both invocations have read records and quoted a price, with different
\* windows, and the second finished while the first was still reading
C19_Witness ==
    /\ pc = "chat"
    /\ Len(src) = 2
    /\ inv[1].hours /= inv[2].hours
    /\ inv[1].pc = "stream" /\ inv[1].pos = 1
    /\ inv[2].pc = "done" /\ inv[2].settled.t = "resolved"
    /\ Len(inv[2].settled.body.fleet.rows) > 0


(***************************************************************************)
(* C13 and C14: the text of the wide table                                 *)
(***************************************************************************)
\* s.split(/ {2,}/): the pieces of s between the runs of two or more spaces
RECURSIVE SplitRuns(_, _)
SplitRuns(s, cur) ==
    IF s = <<>> THEN <<cur>>
    ELSE IF Len(s) >= 2 /\ s[1] = " " /\ s[2] = " "
    THEN <<cur>> \o SplitRuns(trimStart(s), <<>>)
    ELSE SplitRuns(Tail(s), Append(cur, Head(s)))

\* the fields of a data line; the padding that ends the line is no field
Fields(line) == SplitRuns(trimEnd(line), <<>>)

\* the fleet section of the message is a wide table
WideTable == Analyzed /\ message.fleet.t = "table"

\* the window count and the 24h count of fleet f in the fleet stats
StatOf(f) ==
    IF variant = "chat"
    THEN [SDUs |-> CountOfKey(fleetDataDynamic, f),
          SDUs24h |-> CountOfKey(fleetData24h, f)]
    ELSE LET e == fleetData[CHOOSE i \in DOMAIN fleetData : fleetData[i].key = f]
         IN  [SDUs |-> e.SDUs, SDUs24h |-> e.SDUs24h]

\* C13: splitting each data line of the wide table on runs of two or more
\* spaces yields one field per header column, and the fields under SDUs,
\* Val, 24h SDUs and 24h Val are the fleet's window count, window value to 2
\* decimals, 24h count and 24h value to 2 decimals.
C13_WideTableRoundTrip ==
    WideTable =>
        LET lines == TableLines(variant, message.fleet.rows)
            k == IF variant = "rc1" THEN 3 ELSE 2
            price == CurrentPrice(quote.price)
        IN  \A i \in DOMAIN message.fleet.rows :
                LET fields == Fields(lines.data[i])
                    stat == StatOf(message.fleet.rows[i].Fleet)
                IN  /\ Len(fields) = Len(Headers(variant))
                    /\ fields[k] = IntText(stat.SDUs)
                    /\ fields[k + 1] = Fixed2Text(ValFixed2(stat.SDUs, price))
                    /\ fields[k + 2] = IntText(stat.SDUs24h)
                    /\ fields[k + 3] = Fixed2Text(ValFixed2(stat.SDUs24h, price))


\* the offset of column c in a line whose columns have the widths w
Offset(w, c) ==
    LET S[k \in 0..(c - 1)] == IF k = 0 THEN 0 ELSE S[k - 1] + w[k] + Len(Gap)
    IN  S[c - 1]

\* every cell of the line starts at the offset of its column, and spaces
\* fill the line between the cells
AlignedLine(line, cells, w) ==
    /\ Len(line) = Offset(w, Len(w)) + w[Len(w)]
    /\ \A c \in DOMAIN cells :
          /\ SubSeq(line, Offset(w, c) + 1, Offset(w, c) + Len(cells[c])) = cells[c]
          /\ \A j \in (Offset(w, c) + Len(cells[c]) + 1)..
                       (IF c = Len(w) THEN Len(line) ELSE Offset(w, c + 1)) :
                 line[j] = " "

\* C14: in the wide fleet table each column is as wide as its longest cell
\* over the header and the data rows, and the header line, the separator
\* line and every data line place each column at the same offset.
C14_ColumnsAlign ==
    WideTable =>
        LET rows == message.fleet.rows
            lines == TableLines(variant, rows)
            w == colWidths(variant, rows)
        IN  /\ AlignedLine(lines.header, Headers(variant), w)
            /\ lines.separator = join([c \in DOMAIN w |-> Repeat("-", w[c])], Gap)
            /\ \A i \in DOMAIN rows :
                  AlignedLine(lines.data[i], RowCells(variant, rows[i]), w)


(***************************************************************************)
(* C21: the counts while the aggregator folds                              *)
(***************************************************************************)
\* C21: from one folded record to the next no fleet's window count and no
\* fleet's 24h count decreases, and both counts are never negative.
C21_CountsNeverDecrease ==
    [][\A f \in AllFleets :
          /\ WindowCount(f)' >= WindowCount(f)
          /\ Count24h(f)' >= Count24h(f)
          /\ WindowCount(f)' >= 0
          /\ Count24h(f)' >= 0]_vars


(***************************************************************************)
(* C22: the base name of a fleet                                           *)
(***************************************************************************)
\* the location key of a row: 'Starbase Coordinate', else 'Starbase'
KeyOf(row) ==
    IF TrimCell(row.StarbaseCoordinate) /= "" THEN TrimCell(row.StarbaseCoordinate)
    ELSE TrimCell(row.Starbase)

\* the folded records of fleet f that carry a location key
Keyed(f) ==
    {i \in 1..pos : /\ PassesValidation(variant, src[i])
                    /\ RowFleet(variant, src[i]) = f
                    /\ KeyOf(src[i]) /= ""}

LastOf(S) == CHOOSE i \in S : \A j \in S : j <= i

\* C22 as stated: a fleet's baseName is the name resolved for its last
\* record that carried a location key, the mapped name if the key is in the
\* bases mapping and 'Unknown' otherwise, and is empty when no record of the
\* fleet carried a key.
C22_BaseNameIsLastResolved ==
    variant = "rc1" =>
        \A i \in DOMAIN fleetData :
            LET f == fleetData[i].key
                k == KeyOf(src[LastOf(Keyed(f))])
            IN  fleetData[i].baseName =
                    IF Keyed(f) = {} THEN ""
                    ELSE IF k \in DOMAIN basesMapping THEN basesMapping[k]
                    ELSE "Unknown"

\* C22 amended: the resolved name is the mapped name if the key is in the
\* bases mapping with a non-empty name, and 'Unknown' otherwise.
C22_BaseNameIsLastResolvedNonEmpty ==
    variant = "rc1" =>
        \A i \in DOMAIN fleetData :
            LET f == fleetData[i].key
                k == KeyOf(src[LastOf(Keyed(f))])
            IN  fleetData[i].baseName =
                    IF Keyed(f) = {} THEN ""
                    ELSE IF k \in DOMAIN basesMapping /\ basesMapping[k] /= ""
                    THEN basesMapping[k]
                    ELSE "Unknown"

\* a fleet had a record at a mapped base and then one at an unmapped base
C22_Witness ==
    /\ variant = "rc1"
    /\ pc = "price"
    /\ Len(src) = 2
    /\ src[1].StarbaseCoordinate = "k1"
    /\ src[2].Starbase = "k9"
    /\ basesMapping = Bases0
    /\ fleetData = <<[key |-> FleetA, SDUs |-> 10, SDUs24h |-> 10,
                      baseName |-> "Unknown"]>>


(***************************************************************************)
(* C23 and C24: the classes of the calculator and the net figures          *)
(***************************************************************************)
\* the fleets the calculator loops over, with their counts
CalcFleets ==
    IF variant = "chat"
    THEN LET fleets == allFleets(fleetDataDynamic, fleetData24h)
         IN  [i \in DOMAIN fleets |->
                 [key |-> fleets[i],
                  SDUs |-> CountOfKey(fleetDataDynamic, fleets[i]),
                  SDUs24h |-> CountOfKey(fleetData24h, fleets[i])]]
    ELSE [i \in DOMAIN fleetData |->
             [key |-> fleetData[i].key, SDUs |-> fleetData[i].SDUs,
              SDUs24h |-> fleetData[i].SDUs24h]]

\* the looked-up rate of a fleet, as a number
RateOf(f) == parseFloat(RentalCostOf(variant, rentalPrices, f))

IsRented(f) == ~isNaN(RateOf(f)) /\ RateOf(f).n > 0

SumOver(q, F(_)) ==
    LET S[i \in 0..Len(q)] == IF i = 0 THEN 0 ELSE S[i - 1] + F(q[i])
    IN  S[Len(q)]

\* C23: every fleet is Rented (rate a number > 0) or Owned; a Rented fleet
\* adds its values and its rent to the Rented totals only, an Owned fleet
\* adds its values to the Owned totals only and changes no rent total, and
\* every fleet's values are added to the Overall value totals once.
C23_RentedOrOwned ==
    Analyzed =>
        LET t == result.totals
            price == CurrentPrice(quote.price)
            Val(e) == Value(e.SDUs, price)
            Val24(e) == Value(e.SDUs24h, price)
            RentedVal(e) == IF IsRented(e.key) THEN Val(e) ELSE 0
            RentedVal24(e) == IF IsRented(e.key) THEN Val24(e) ELSE 0
            OwnedVal(e) == IF IsRented(e.key) THEN 0 ELSE Val(e)
            OwnedVal24(e) == IF IsRented(e.key) THEN 0 ELSE Val24(e)
            Rent(e) == IF IsRented(e.key) THEN Rent24h(RateOf(e.key).n) ELSE 0
            RentWindow(e) ==
                IF IsRented(e.key) THEN Prorated(RateOf(e.key).n, hours) ELSE 0
        IN  /\ t.totalValDynamic = SumOver(CalcFleets, Val)
            /\ t.totalVal24h = SumOver(CalcFleets, Val24)
            /\ t.rentedValDynamic = SumOver(CalcFleets, RentedVal)
            /\ t.rentedVal24h = SumOver(CalcFleets, RentedVal24)
            /\ t.ownedValDynamic = SumOver(CalcFleets, OwnedVal)
            /\ t.ownedVal24h = SumOver(CalcFleets, OwnedVal24)
            /\ t.rentedRent24h = SumOver(CalcFleets, Rent)
            /\ t.totalRent24h = SumOver(CalcFleets, Rent)
            /\ t.rentedRentDynamic = SumOver(CalcFleets, RentWindow)
            /\ t.totalRentDynamic = SumOver(CalcFleets, RentWindow)

\* a fleet with a negative rate is Owned next to a Rented fleet, both with
\* a 24h value
C23_Witness ==
    /\ Analyzed
    /\ Len(CalcFleets) = 2
    /\ \E i, j \in DOMAIN CalcFleets :
          /\ RateOf(CalcFleets[i].key) = Num(-5)
          /\ CalcFleets[i].SDUs24h > 0
          /\ IsRented(CalcFleets[j].key)
          /\ CalcFleets[j].SDUs24h > 0
    /\ result.totals.ownedVal24h > 0
    /\ result.totals.rentedVal24h > 0


\* the rent of a fleet for 24 hours and for the window, 0 for an Owned fleet
RentOf(e) == IF IsRented(e.key) THEN Rent24h(RateOf(e.key).n) ELSE 0
RentOfWindow(e) == IF IsRented(e.key) THEN Prorated(RateOf(e.key).n, hours) ELSE 0

\* the values of a fleet at the quoted price
ValOf(e) == Value(e.SDUs, CurrentPrice(quote.price))
Val24Of(e) == Value(e.SDUs24h, CurrentPrice(quote.price))
RentedValOf(e) == IF IsRented(e.key) THEN ValOf(e) ELSE 0
RentedVal24Of(e) == IF IsRented(e.key) THEN Val24Of(e) ELSE 0

\* C24: the window nets (Rented and Overall) subtract the sum of the
\* prorated rents r * h / 24 of the rented fleets from the sum of the window
\* values, the 24h nets subtract the sum of the rates r from the sum of the
\* 24h values, and the Owned nets are the Owned values.
C24_NetIsValueMinusRent ==
    Analyzed =>
        /\ result.netDynamic
              = SumOver(CalcFleets, ValOf) - SumOver(CalcFleets, RentOfWindow)
        /\ result.netRentedDynamic
              = SumOver(CalcFleets, RentedValOf) - SumOver(CalcFleets, RentOfWindow)
        /\ result.net24h
              = SumOver(CalcFleets, Val24Of) - SumOver(CalcFleets, RentOf)
        /\ result.netRented24h
              = SumOver(CalcFleets, RentedVal24Of) - SumOver(CalcFleets, RentOf)
        /\ result.netOwnedDynamic
              = SumOver(CalcFleets, ValOf) - SumOver(CalcFleets, RentedValOf)
        /\ result.netOwned24h
              = SumOver(CalcFleets, Val24Of) - SumOver(CalcFleets, RentedVal24Of)

\* a window of 12 hours, two rented fleets and a loss in the window
C24_Witness ==
    /\ Analyzed
    /\ hours = 12
    /\ Len(CalcFleets) = 2
    /\ \A i \in DOMAIN CalcFleets : IsRented(CalcFleets[i].key)
    /\ result.totals.totalRentDynamic = Prorated(13, 12)
    /\ result.netDynamic < 0
    /\ result.netDynamic /= result.net24h


(***************************************************************************)
(* C25: the ROI of the summary rows                                        *)
(***************************************************************************)
\* round(val / rent * 100) percent, not applicable unless the rent is > 0
RoiOfRow(val, rent24h) ==
    IF rent24h > 0 THEN Pct(RoundDiv(val * 100, rent24h)) ELSE NA

\* C25: every profit summary carries an ROI in each of its three rows: N/A
\* in the Owned row, and in the Rented and Overall rows N/A when the 24h
\* rent of the rented fleets is not positive and otherwise round(24h value
\* of the row / 24h rent of the row * 100) percent.
C25_SummaryRoi ==
    Analyzed =>
        LET rows == message.summary.rows
            t == result.totals
        IN  /\ Len(rows) = 3
            /\ rows[1].ROI = RoiOfRow(t.rentedVal24h, t.rentedRent24h)
            /\ rows[2].ROI = NA
            /\ rows[3].ROI = RoiOfRow(t.totalVal24h, t.totalRent24h)


(***************************************************************************)
(* C26: the chat pipeline against the CLI pipelines                        *)
(***************************************************************************)
\* fleetData after processCSV of anal_rc1.js has seen every row
RECURSIVE FoldCli(_, _)
FoldCli(rows, fd) ==
    IF rows = <<>> THEN fd
    ELSE FoldCli(Tail(rows),
                 processCSV_data(fd, Head(rows), Since(now, hours), Last24h(now),
                                 basesMapping))

\* the table loadRentalPrices builds from the configuration from which
\* buildRentalPricesFromEnv built table: the same keys, the values parsed
ParsedTable(table) == [k \in DOMAIN table |-> parseFloat(table[k])]

\* the class and the rent of every fleet of a sequence of fleet entries
Classes(entries, v, table) ==
    {[fleet |-> entries[i].key, SDUs |-> entries[i].SDUs,
      SDUs24h |-> entries[i].SDUs24h,
      rate |-> LET r == parseFloat(RentalCostOf(v, table, entries[i].key))
               IN  IF ~isNaN(r) /\ r.n > 0 THEN r.n ELSE 0] : i \in DOMAIN entries}

\* C26: for the same records, rental configuration, instant, window size,
\* quote and fiat rate the chat pipeline and the CLI pipeline produce the
\* same fleets, the same counts, class and rent per fleet and the same six
\* net figures.
C26_ChatEqualsCli ==
    (Analyzed /\ variant = "chat") =>
        LET fd == FoldCli(src, <<>>)
            table == ParsedTable(rentalPrices)
            cli == analyzeAndFormatLocal(fd, table, CurrentPrice(quote.price), hours)
        IN  /\ Classes(CalcFleets, "chat", rentalPrices) = Classes(fd, "rc1", table)
            /\ result.net24h = cli.net24h
            /\ result.netDynamic = cli.netDynamic
            /\ result.netRented24h = cli.netRented24h
            /\ result.netRentedDynamic = cli.netRentedDynamic
            /\ result.netOwned24h = cli.netOwned24h
            /\ result.netOwnedDynamic = cli.netOwnedDynamic


(***************************************************************************)
(* C27: the two windows are nested                                         *)
(***************************************************************************)
\* every valid record folded so far has a non-negative count
NonNegativeSoFar ==
    \A i \in 1..pos : PassesValidation(variant, src[i]) => RowCount(src[i]) >= 0

\* C27: after folding valid records with non-negative counts, for every
\* fleet the window count is at most the 24h count if h <= 24, at least the
\* 24h count if h >= 24, and equal to it if h = 24.
C27_WindowsAreNested ==
    NonNegativeSoFar =>
        \A f \in AllFleets :
            /\ hours <= 24 => WindowCount(f) <= Count24h(f)
            /\ hours >= 24 => Count24h(f) <= WindowCount(f)
            /\ hours = 24 => WindowCount(f) = Count24h(f)

\* a window of 36 hours holds a record that the 24h window does not hold
C27_Witness ==
    /\ pc = "price"
    /\ hours = 36
    /\ NonNegativeSoFar
    /\ Len(src) = 2
    /\ \E f \in AllFleets : Count24h(f) = 5 /\ WindowCount(f) = 10


(***************************************************************************)
(* C28: the channel of a CLI run                                           *)
(***************************************************************************)
\* how many times the message went out on a channel
TimesOn(channel) ==
    Cardinality({i \in DOMAIN out : out[i].channel = channel /\ out[i].body /= None})

\* the run is over
Over == pc \in {"done", "rejected", "crashed"}

\* C28: a CLI run whose analysis completes delivers the final message to one
\* channel: with the pushover argument and both credentials it is posted
\* once and not printed, with the argument and a credential missing it is
\* printed and never posted, without the argument it is printed only; a run
\* whose analysis fails delivers the message to no channel.
C28_OneChannel ==
    (Over /\ variant /= "chat") =>
        IF message = None
        THEN /\ TimesOn("stdout") = 0
             /\ TimesOn("pushover") = 0
             /\ TimesStarted("deliver") = 0
        ELSE IF usePushover /\ credentials
        THEN /\ TimesStarted("deliver") = 1
             /\ TimesOn("pushover") <= 1
             /\ TimesOn("stdout") = 0
        ELSE /\ TimesStarted("deliver") = 0
             /\ TimesOn("pushover") = 0
             /\ TimesOn("stdout") = 1
             /\ \E i \in DOMAIN out : out[i] = StdOut("report", message)

\* a run with the pushover argument and both credentials posted its message
C28_Witness ==
    /\ pc = "done"
    /\ variant = "local"
    /\ usePushover /\ credentials
    /\ message /= None
    /\ TimesOn("pushover") = 1
    /\ \E i \in DOMAIN out : out[i].channel = "pushover" /\ out[i].body = message
    /\ out[Len(out)] = StdOut("Message sent to Pushover.", None)


(***************************************************************************)
(* The window-size argument.                                               *)
(***************************************************************************)
MaxArg == 12

\* what the caller may give: nothing, an empty text, a text that is no
\* number, or the text of an integer
ArgValues == {None, EmptyText, JunkText} \cup {NumText(n) : n \in -MaxArg..MaxArg}

\* anal_rc1.js and app_local_pushover.js:
\* args.length > hoursArgIndex ? parseInt(args[hoursArgIndex], 10) || 24 : 24
hours_cli(arg) ==
    IF arg /= None
    THEN LET parsed == parseInt(arg)
         IN  IF Truthy(parsed) THEN parsed.n ELSE 24
    ELSE 24

\* efficiency.js: arg ? parseInt(arg, 10) || 24 : 24
hours_eff(arg) ==
    IF arg /= None /\ Truthy(arg)
    THEN LET parsed == parseInt(arg)
         IN  IF Truthy(parsed) THEN parsed.n ELSE 24
    ELSE 24

\* app.js: let hours = 24; a command text that is not blank is parsed, and
\* the parsed value is taken if it is a number above zero
hours_chat(text) ==
    IF text /= None /\ Truthy(text) /\ text /= EmptyText
    THEN LET parsed == parseInt(text)
         IN  IF ~isNaN(parsed) /\ parsed.n > 0 THEN parsed.n ELSE 24
    ELSE 24

HoursOf(v, arg) ==
    CASE v \in {"rc1", "local"} -> hours_cli(arg)
      [] v = "eff" -> hours_eff(arg)
      [] v = "chat" -> hours_chat(arg)

InitArgs ==
    /\ variant \in Variants
    /\ rentalPrices = EmptyObject
    /\ argv \in ArgValues
    /\ IdleLookup
    /\ IdleStream
    /\ IdlePrice
    /\ IdleReport
    /\ inv = <<>>
    /\ calls = <<>>
    /\ pc = "args"

\* the first lines of main(), and of the command handler
ParseArgs ==
    /\ pc = "args"
    /\ hours' = HoursOf(variant, argv)
    /\ pc' = "parsed"
    /\ UNCHANGED <<inv, calls, argv, variant, rentalPrices, query, rent, now,
                   basesMapping, src, pos, fleetData, fleetDataDynamic,
                   fleetData24h, market, quote, reportVars>>

NextArgs == ParseArgs

SpecArgs == InitArgs /\ [][NextArgs]_vars

(***************************************************************************)
(* C29: the window size                                                    *)
(***************************************************************************)
\* C29: the window size is always a positive integer: an absent, non-numeric,
\* zero or negative argument gives the default 24, and a positive integer
\* argument is used as given.
C29_HoursIsPositive ==
    pc = "parsed" =>
        /\ hours > 0
        /\ hours = IF argv.t = "numtext" /\ argv.n > 0 THEN argv.n ELSE 24


(***************************************************************************)
(* C30: a rate is charged once                                             *)
(***************************************************************************)
\* the sum of the positive rates of the keys S of a rental table, as rent of
\* 24 hours
RECURSIVE SumOfRates(_, _)
SumOfRates(table, S) ==
    IF S = {} THEN 0
    ELSE LET k == CHOOSE x \in S : TRUE
             r == parseFloat(table[k])
         IN  (IF ~isNaN(r) /\ r.n > 0 THEN Rent24h(r.n) ELSE 0)
             + SumOfRates(table, S \ {k})

\* C30: every configured rate is charged at most once in a run: the total
\* 24h rent (rentedRent24h = totalRent24h) never exceeds the sum of the
\* positive rates of the rental table, whatever fleet names appear, names
\* that differ only in letter case included.
C30_RateChargedOnce ==
    Analyzed =>
        /\ result.totals.rentedRent24h = result.totals.totalRent24h
        /\ result.totals.totalRent24h <= SumOfRates(rentalPrices, DOMAIN rentalPrices)

====
